---- MODULE Spec2Model ----
(***************************************************************************)
(* A state-machine model of the review and mapper-consent handlers of      *)
(* server/src/routers/anyone.ts and of the nomination handlers of          *)
(* server/src/router.ts.                                                   *)
(*                                                                         *)
(* Every request is served by a handler slot (Procs).  A handler's steps   *)
(* are the stretches of code between the awaits at which another request   *)
(* can observe or change the stored rows:                                  *)
(*   - the request up to the call of db.transact (input checks, role       *)
(*     checks, the reads made outside the transaction, the content         *)
(*     collaborator's answer);                                             *)
(*   - the callback of db.transact: its writes are kept in tx[p], unseen   *)
(*     by the other handlers, and the rows it writes stay locked;          *)
(*   - the commit, which makes the writes visible, followed by the code    *)
(*     after `await db.transact(...)`.                                     *)
(*                                                                         *)
(* POST /review and DELETE /review of server/src/router.ts are mounted     *)
(* after anyoneRouter (router.ts lines 1414-1417), whose handlers always   *)
(* answer, so they never run; the handlers modelled are anyone.ts's.       *)
(***************************************************************************)
EXTENDS Integers, Sequences, FiniteSets, TLC

\* ------------------------------------------------------------------ bounds

\* Requests started in one behaviour.
MaxReq == 2

\* ----------------------------------------------------------------- domains

Procs == {"h1", "h2"}
Users == {1, 2}
Beatmapsets == {1, 2}
GameModes == {0, 1}
Reasons == {"a", "b"}
\* 4 is outside the accepted range -4..3
Scores == {-4, -2, 0, 1, 2, 3, 4}
\* req.body.gameModes of POST /review-many: an array, repeats allowed
GameModeArrays == {<<>>, <<0>>, <<1>>, <<0, 1>>, <<0, 0>>}
\* req.query.reviewId of DELETE /review
ReviewIds == {1, 2, 3}

\* req.body.consent.user_id of POST /mapper-consent: user 3 is not stored
ConsentUsers == {1, 2, 3}
\* beatmapset_id of req.body.consentBeatmapsets: beatmapset 3 is not stored
ConsentBeatmapsetIds == {1, 3}
\* ConsentValue of loved-bridge
ConsentValues == {"no", "yes", "unreachable"}
\* one element of req.body.consentBeatmapsets
ConsentBeatmapsetInputs ==
    [beatmapset_id : ConsentBeatmapsetIds, consent : BOOLEAN, consent_reason : {"a"}]
\* req.body.consentBeatmapsets: an array, repeats allowed
ConsentBeatmapsetArrays ==
    {<<>>} \cup {<<e>> : e \in ConsentBeatmapsetInputs}
           \cup {<<e, f>> : e \in ConsentBeatmapsetInputs, f \in ConsentBeatmapsetInputs}

\* the users isAnyRoleMiddleware lets through to router.ts: the captain 1
\* and the god 4
NominationActors == {1, 4}
\* req.body.roundId
RoundIds == {1}
\* req.body.beatmapsetId of POST /nomination-submit
NominationBeatmapsets == {1, 2}
\* req.body.parentId; 0 stands for none, 9 is the id of no nomination
ParentIds == {0, 1, 9}
\* req.query.nominationId
NominationIds == {1, 2, 3}

\* an order the UPDATE of nominations fails on
BadOrder == 99

\* The inputs the requests of a specification are drawn from.
AllInputs ==
    [users |-> Users, beatmapsets |-> {1}, gameModes |-> GameModes,
     scores |-> Scores, reasons |-> Reasons, arrays |-> GameModeArrays,
     reviewIds |-> ReviewIds, consentActors |-> Users, consentUsers |-> ConsentUsers,
     nominationActors |-> NominationActors, roundIds |-> RoundIds,
     nominationBeatmapsets |-> NominationBeatmapsets, parentIds |-> ParentIds,
     nominationIds |-> NominationIds,
     consentValues |-> ConsentValues, consentArrays |-> ConsentBeatmapsetArrays,
     \* the users of the guard isCaptain: the moderator 7 and the captain 8;
     \* req.body.nominatorIds of POST /update-nominators
     captainActors |-> {7, 8}, nominatorIds |-> {<<>>, <<2>>, <<1, 2>>},
     excludedBeatmapIds |-> {<<>>, <<5>>, <<7, 9>>},
     \* POST /nomination-edit-description: the captains 1 (game mode 0) and 9
     \* (game mode 1), the news author 5, the metadata checker 6, and 8,
     \* captain of game mode 0 and news author; req.body.description, null
     \* or a text
     descriptionActors |-> {1, 5, 6, 8, 9}, descriptions |-> {"<NULL>", "b", "c"},
     \* POST /nomination-edit-metadata: the captain 1, the news author 5 and
     \* the metadata checker 6; req.body.state; req.body.artist and title,
     \* null or a text; req.body.creators, absent or an array of names, "?"
     \* being the name of no user
     metadataActors |-> {1, 5, 6},
     metadataStates |-> {"unchecked", "needs_change", "good"},
     artists |-> {"<NULL>", "y"}, titles |-> {"<NULL>", "y"},
     creatorArrays |->
        {[given |-> FALSE, names |-> <<>>]}
            \cup {[given |-> TRUE, names |-> a] :
                     a \in {<<>>, <<"x">>, <<"y", "x">>, <<"y", "?">>}},
     \* req.body of POST /update-nomination-order: nomination id -> order; 3
     \* is the id of no nomination
     orderMaps |-> UNION {[S -> {0, 5, BadOrder}] : S \in {{1}, {1, 2}, {2, 3}}},
     \* POST /update-nomination-assignees: the captain 1, the news author 5,
     \* the metadata checker 6 and the moderator 7; req.body.type, 2 being
     \* no AssigneeType; req.body.assigneeIds
     assigneeActors |-> {1, 5, 6, 7}, assigneeTypes |-> {0, 1, 2},
     assigneeIds |-> {<<>>, <<2>>, <<3, 1>>},
     \* the round handlers: the captain 1 (game mode 0), the user 2 without
     \* a role, the news author 5; req.body.roundId, 9 being the id of no
     \* round; req.body.gameMode, 7 being no game mode; req.body.round, an
     \* object or not; the body of PUT /settings; how many INSERTs into
     \* round_game_modes succeed before one fails (4: all)
     roundActors |-> {1, 2, 5}, roundIdsAny |-> {1, 2, 4, 9},
     lockGameModes |-> {0, 1, 3, 7},
     roundParams |->
        {[isRecord |-> FALSE, name |-> "", done |-> FALSE],
         [isRecord |-> TRUE, name |-> "", done |-> TRUE],
         [isRecord |-> TRUE, name |-> "r", done |-> TRUE],
         [isRecord |-> TRUE, name |-> "r", done |-> FALSE]},
     settingsBodies |-> {<<>>, <<3>>, <<0, 2, 4, 1>>},
     seeded |-> {2, 4},
     \* request.session.userId, 0 for a session without one and 3 the id of
     \* no stored user; what tryRefreshToken does: it returns null, returns
     \* a new token, is refused with status 401, or fails otherwise
     sessionUsers |-> {0, 1, 2, 3},
     refreshOutcomes |-> {"null", "tokenInfo", "401", "error"}]

\* The requests of one reviewer about one beatmapset: the ones that can race
\* for the same review rows.
RacingInputs ==
    [nominationActors |-> NominationActors, roundIds |-> RoundIds,
     nominationBeatmapsets |-> NominationBeatmapsets, parentIds |-> {0, 1},
     nominationIds |-> {1, 3},
     consentActors |-> {2}, consentUsers |-> {2, 3}, consentValues |-> {"no", "yes"},
     consentArrays |->
        {<<>>,
         <<[beatmapset_id |-> 1, consent |-> TRUE, consent_reason |-> "a"]>>,
         <<[beatmapset_id |-> 1, consent |-> FALSE, consent_reason |-> "a"]>>,
         <<[beatmapset_id |-> 3, consent |-> TRUE, consent_reason |-> "a"]>>,
         <<[beatmapset_id |-> 1, consent |-> TRUE, consent_reason |-> "a"],
           [beatmapset_id |-> 3, consent |-> TRUE, consent_reason |-> "a"]>>},
     users |-> {2}, beatmapsets |-> {1}, gameModes |-> GameModes,
     scores |-> {1, 2, 3}, reasons |-> {"a"}, arrays |-> {<<0>>, <<0, 1>>, <<1, 1>>},
     reviewIds |-> {1, 3}]

\* RankedStatus.pending of loved-bridge
RankedStatusPending == 0

\* submissions.reason IS NULL
NullReason == "<NULL>"

VARIABLES
    reviews,        \* table reviews: set of rows
    nextReviewId,   \* AUTO_INCREMENT of reviews
    submissions,    \* table submissions: set of rows
    beatmapsets,    \* table beatmapsets: ids stored locally
    logs,           \* table logs (dbLog): sequence of records
    cache,          \* cache keys currently holding a value
    clock,          \* requests started so far; new Date() reads it
    rq,             \* rq[p]: the review request handler p serves (or served last)
    tx,             \* tx[p]: uncommitted writes of p's review transaction
    users,          \* table users: ids stored locally
    consents,       \* table mapper_consents: set of rows
    consentBeatmapsets, \* table mapper_consent_beatmapsets: set of rows
    crq,            \* crq[p]: the consent request handler p serves (or served last)
    ctx,            \* ctx[p]: uncommitted writes of p's consent transaction
    lastConsent,    \* history: the POST /mapper-consent request committed last
    cachedReviews,  \* cachedReviews[g]: the value held under submissions:g:reviews
    nominations,    \* table nominations: set of rows
    nextNominationId, \* AUTO_INCREMENT of nominations
    nominators,     \* table nomination_nominators: set of rows
    assignees,      \* table nomination_assignees: set of rows
    excludedBeatmaps, \* table nomination_excluded_beatmaps: set of rows
    nrq,            \* nrq[p]: the nomination request handler p serves (or served last)
    ntx,            \* ntx[p]: uncommitted writes of p's nomination transaction
    creators,       \* table beatmapset_creators: set of rows
    erq,            \* erq[p]: the nomination edit handler p serves (or served last)
    etx,            \* etx[p]: uncommitted writes of p's nomination edit transaction
    rounds,         \* table rounds: set of rows
    roundGameModes, \* table round_game_modes: set of rows
    nextRoundId,    \* AUTO_INCREMENT of rounds
    settings,       \* the settings object: key defaultVotingThreshold.g, if set
    rrq,            \* rrq[p]: the round request handler p serves (or served last)
    rtx,            \* rtx[p]: uncommitted writes of p's round transaction
    sessionLock,    \* sessionLock[u]: the requests queued under key u, holder first
    sessions,       \* the session store: user ids whose session is stored
    srq             \* srq[p]: the request the session middleware of p handles

reviewVars == <<reviews, nextReviewId, submissions, rq, tx>>

consentVars == <<users, consents, consentBeatmapsets, crq, ctx, lastConsent>>

\* what the handlers that edit a stored nomination add to the above
editVars == <<creators, erq, etx>>

nominationVars ==
    <<nominations, nextNominationId, nominators, assignees, excludedBeatmaps, nrq, ntx,
      creators, erq, etx>>

roundVars == <<rounds, roundGameModes, nextRoundId, settings, rrq, rtx>>

sessionVars == <<sessionLock, sessions, srq>>

vars == <<reviews, nextReviewId, submissions, beatmapsets, logs, cache, clock, rq, tx,
          users, consents, consentBeatmapsets, crq, ctx, lastConsent, cachedReviews,
          nominations, nextNominationId, nominators, assignees, excludedBeatmaps, nrq, ntx,
          creators, erq, etx, rounds, roundGameModes, nextRoundId, settings, rrq, rtx,
          sessionLock, sessions, srq>>

\* ------------------------------------------------------------ capabilities

\* user_roles rows: users 1 and 8 are captains of game mode 0, user 9 is
\* captain of game mode 1, user 2 has no role
CaptainGameModes(user) ==
    IF user \in {1, 8} THEN {0} ELSE IF user = 9 THEN {1} ELSE {}

\* hasRole(Role.captain, gameMode)
hasRoleCaptain(user, gameMode) == gameMode \in CaptainGameModes(user)

\* hasRole(Role.captain)
hasRoleCaptainAny(user) == CaptainGameModes(user) # {}

\* res.typedLocals.user.roles.god: user 4 is the one god
rolesGod(user) == user = 4

\* roles.gameModes[gameMode] of authRoles(req, res)
rolesGameModes(user, gameMode) == hasRoleCaptain(user, gameMode)

\* roles.news: users 5 and 8 are news authors
rolesNews(user) == user \in {5, 8}

\* roles.metadata: user 6 is the metadata checker
rolesMetadata(user) == user = 6

\* roles.moderator: user 7 is the moderator
rolesModerator(user) == user = 7

\* ------------------------------------------------------------------ values

NoReview == [found |-> FALSE, id |-> 0, score |-> 0, reason |-> ""]

NoBeatmapset == [found |-> FALSE, ranked_status |-> 0, game_modes |-> {}]

IdleReq ==
    [pc |-> "idle", op |-> "none", actor |-> 0, beatmapsetId |-> 0,
     gameModes |-> <<>>, score |-> 0, reason |-> "", now |-> 0,
     existing |-> NoReview, subs |-> {}, beatmapset |-> NoBeatmapset,
     status |-> 0, error |-> ""]

NoTx == [put |-> {}, del |-> {}, delSubs |-> {}, logs |-> <<>>, locks |-> {}]

\* what osu.createOrRefreshBeatmapset can answer: null, or the beatmapset
OsuBeatmapsetAnswers ==
    {NoBeatmapset,
     [found |-> TRUE, ranked_status |-> 1, game_modes |-> {0, 1}],
     [found |-> TRUE, ranked_status |-> RankedStatusPending, game_modes |-> {0}],
     [found |-> TRUE, ranked_status |-> RankedStatusPending, game_modes |-> {0, 1}]}

CacheKeyReviews(gameMode) == <<"submissions", gameMode, "reviews">>

\* 'mapper-consents', 'submissions:mapper-consent-beatmapsets',
\* 'submissions:mapper-consents'
CacheKeysConsent ==
    {<<"mapper-consents", 0, "">>,
     <<"submissions", 0, "mapper-consent-beatmapsets">>,
     <<"submissions", 0, "mapper-consents">>}

ReviewKey(r) == <<r.beatmapset_id, r.reviewer_id, r.game_mode>>

\* --------------------------------------------------------------- storage

\* SELECT * FROM reviews WHERE beatmapset_id = ? AND reviewer_id = ? AND game_mode = ?
ReviewsOf(rows, beatmapsetId, reviewerId, gameMode) ==
    {r \in rows : /\ r.beatmapset_id = beatmapsetId
                  /\ r.reviewer_id = reviewerId
                  /\ r.game_mode = gameMode}

\* db.queryOne of the above: the row as the handler keeps it
existingReviewOf(rows, beatmapsetId, reviewerId, gameMode) ==
    LET m == ReviewsOf(rows, beatmapsetId, reviewerId, gameMode) IN
    IF m = {} THEN NoReview
    ELSE LET r == CHOOSE x \in m : \A y \in m : x.id <= y.id IN
         [found |-> TRUE, id |-> r.id, score |-> r.score, reason |-> r.reason]

\* a table without the unique key
ReviewKeyNeverTaken(rows, beatmapsetId, reviewerId, gameMode) == FALSE

\* The unique key (beatmapset_id, reviewer_id, game_mode) of reviews: an
\* INSERT of a second row for a key fails.
ReviewKeyTaken(rows, beatmapsetId, reviewerId, gameMode) ==
    ReviewsOf(rows, beatmapsetId, reviewerId, gameMode) # {}

\* the rows another handler's uncommitted transaction holds locked
LocksOfOthers(p) ==
    UNION {tx[q].locks \cup ctx[q].locks \cup ntx[q].locks \cup etx[q].locks :
              q \in Procs \ {p}}

LockReview(id) == <<"review", id, 0, 0>>
LockKey(beatmapsetId, reviewerId, gameMode) == <<"key", beatmapsetId, reviewerId, gameMode>>
LockSubmission(id) == <<"submission", id, 0, 0>>
LockConsent(userId) == <<"consent", userId, 0, 0>>
LockNomination(id) == <<"nomination", id, 0, 0>>
LockNominationKey(roundId, gameMode, beatmapsetId) ==
    <<"nominationKey", roundId, gameMode, beatmapsetId>>
\* the rows of nomination_nominators of a nomination, and the gap they fill
LockNominators(id) == <<"nominators", id, 0, 0>>
\* the rows of nomination_excluded_beatmaps of a nomination
LockExcludedBeatmaps(id) == <<"excludedBeatmaps", id, 0, 0>>
\* the shared lock an INSERT of a child row holds on its nomination
LockNominationRef(id) == <<"nominationRef", id, 0, 0>>
\* the rows of nomination_assignees of (nomination, type)
LockAssignees(id, type) == <<"assignees", id, type, 0>>
\* the rows of beatmapset_creators of (beatmapset, game mode)
LockCreators(beatmapsetId, gameMode) == <<"creators", beatmapsetId, gameMode, 0>>

\* the tables after a transaction's writes are applied
ApplyReviews(rows, t) ==
    {r \in rows : r.id \notin t.del /\ r.id \notin {w.id : w \in t.put}} \cup t.put

ApplySubmissions(rows, t) == {s \in rows : s.id \notin t.delSubs}

\* the query with `AND submitter_id = ?` left out
OpenSubmissionsOfAnyone(rows, beatmapsetId, gameModeSet, submitterId) ==
    {s \in rows : /\ s.beatmapset_id = beatmapsetId
                  /\ s.game_mode \in gameModeSet
                  /\ s.reason = NullReason}

\* the open submissions of (beatmapset, game mode, submitter):
\* SELECT * FROM submissions WHERE beatmapset_id = ? AND game_mode = ?
\*   AND reason IS NULL AND submitter_id = ?
OpenSubmissions(rows, beatmapsetId, gameModeSet, submitterId) ==
    {s \in rows : /\ s.beatmapset_id = beatmapsetId
                  /\ s.game_mode \in gameModeSet
                  /\ s.reason = NullReason
                  /\ s.submitter_id = submitterId}

\* ------------------------------------------------------------ audit log

\* dbLogReview(review)
dbLogReview(r) == [id |-> r.id, game_mode |-> r.game_mode, score |-> r.score, reason |-> r.reason]

LogReviewCreated(user, r) ==
    [type |-> "reviewCreated", user |-> user, beatmapset |-> r.beatmapset_id,
     review |-> dbLogReview(r)]

LogReviewUpdated(user, beatmapsetId, from, to) ==
    [type |-> "reviewUpdated", user |-> user, beatmapset |-> beatmapsetId,
     from |-> from, to |-> dbLogReview(to)]

LogReviewDeleted(user, r) ==
    [type |-> "reviewDeleted", user |-> user, beatmapset |-> r.beatmapset_id,
     review |-> dbLogReview(r)]

LogSubmissionDeleted(user, s) ==
    [type |-> "submissionDeleted", user |-> user, beatmapset |-> s.beatmapset_id,
     game_mode |-> s.game_mode, submission |-> s.id]

\* ------------------------------------------------------------- responses

\* What stays of a request once it is answered: which operation it was, the
\* score it asked for, and the answer.
Answered(r, status, error) ==
    [IdleReq EXCEPT !.op = r.op, !.score = r.score, !.status = status, !.error = error]

\* res.status(status).json({ error }): the handler is done
Respond(p, r, status, error) ==
    rq' = [rq EXCEPT ![p] = Answered(r, status, error)]

\* the request goes on to db.transact
Proceed(p, r) == rq' = [rq EXCEPT ![p] = [r EXCEPT !.pc = "transact"]]

\* a throw inside the callback of db.transact: ROLLBACK, then the error
\* handler of the app answers 500
Throw(p, error) ==
    /\ rq' = [rq EXCEPT ![p] = Answered(rq[p], 500, error)]
    /\ UNCHANGED <<tx, nextReviewId, cache>>

\* ------------------------------------------------------------ POST /review

\* req.body.score < -4 || req.body.score > 3
InvalidScore(score) == score < -4 \/ score > 3

\* the check with the game mode left out of hasRole
CaptainScoreForbiddenAnyGameMode(actor, score, gameMode) ==
    score \in {-4, 0} /\ ~hasRoleCaptainAny(actor)

\* [-4, 0].includes(req.body.score) && !hasRole(Role.captain, req.body.gameMode)
CaptainScoreForbidden(actor, score, gameMode) ==
    score \in {-4, 0} /\ ~hasRoleCaptain(actor, gameMode)

\* the check with the comparison of the stored score left out
DeprecatedScoreRejectedIfNoReview(score, existing) ==
    (score = -2 \/ score = 2) /\ ~existing.found

\* (score === -2 || score === 2) && score !== existingReview?.score
DeprecatedScoreRejected(score, existing) ==
    (score = -2 \/ score = 2) /\ (~existing.found \/ score # existing.score)

\* the checks with the one of the ranked status left out
BeatmapsetErrorAnyStatus(osu, gameMode) ==
    IF ~osu.found THEN "Invalid beatmapset ID"
    ELSE IF gameMode \notin osu.game_modes
        THEN "Beatmapset has no beatmaps in game mode"
    ELSE ""

\* the 422 the beatmapset's state earns, "" when it earns none
BeatmapsetError(osu, gameMode) ==
    IF ~osu.found THEN "Invalid beatmapset ID"
    ELSE IF osu.ranked_status > RankedStatusPending
        THEN "Beatmapset is already Ranked/Loved/Qualified"
    ELSE IF gameMode \notin osu.game_modes
        THEN "Beatmapset has no beatmaps in game mode"
    ELSE ""

\* createOrRefreshBeatmapset stores the beatmapset it resolved
StoreBeatmapset(osu, beatmapsetId) ==
    beatmapsets' = IF osu.found THEN beatmapsets \cup {beatmapsetId} ELSE beatmapsets

\* The request up to db.transact.
PostReview(p, D) ==
    /\ rq[p].pc = "idle"
    /\ clock < MaxReq
    /\ clock' = clock + 1
    /\ \E actor \in D.users, b \in D.beatmapsets, g \in D.gameModes,
          score \in D.scores, reason \in D.reasons, osu \in OsuBeatmapsetAnswers :
        LET existing == existingReviewOf(reviews, b, actor, g)
            r == [IdleReq EXCEPT !.op = "review", !.actor = actor,
                                 !.beatmapsetId = b, !.gameModes = <<g>>,
                                 !.score = score, !.reason = reason,
                                 !.existing = existing]
        IN
        IF InvalidScore(score)
            THEN Respond(p, r, 422, "Invalid score")
                 /\ UNCHANGED beatmapsets
        ELSE IF CaptainScoreForbidden(actor, score, g)
            THEN Respond(p, r, 403, "Must be a captain")
                 /\ UNCHANGED beatmapsets
        ELSE IF DeprecatedScoreRejected(score, existing)
            THEN Respond(p, r, 422, "Invalid score") /\ UNCHANGED beatmapsets
        ELSE /\ StoreBeatmapset(osu, b)
             /\ IF BeatmapsetError(osu, g) # ""
                    THEN Respond(p, r, 422, BeatmapsetError(osu, g))
                    ELSE Proceed(p, [r EXCEPT !.beatmapset = osu])
    /\ UNCHANGED <<reviews, nextReviewId, submissions, logs, cache, tx>>
    /\ UNCHANGED <<consentVars, cachedReviews, nominationVars, roundVars, sessionVars>>

\* the comparison with the reason left out
ReviewScoreChanged(existing, score, reason) == existing.score # score

\* existingReview.reason !== req.body.reason || existingReview.score !== req.body.score
ReviewChanged(existing, score, reason) ==
    existing.reason # reason \/ existing.score # score

\* deleteExistingSubmission: the one row queryOne returns, if any
submissionToDelete(rows, beatmapsetId, gameMode, submitterId) ==
    LET m == OpenSubmissions(rows, beatmapsetId, {gameMode}, submitterId) IN
    IF m = {} THEN {} ELSE {CHOOSE s \in m : \A t \in m : s.id <= t.id}

\* The callback of db.transact, update path and insert path.
PostReviewTransact(p) ==
    /\ rq[p].pc = "transact"
    /\ rq[p].op = "review"
    /\ LET r == rq[p]
           g == r.gameModes[1]
           target == {x \in reviews : x.id = r.existing.id}
           sub == submissionToDelete(submissions, r.beatmapsetId, g, r.actor)
           subLogs == IF sub = {} THEN <<>>
                      ELSE <<LogSubmissionDeleted(r.actor, CHOOSE s \in sub : TRUE)>>
           locks == {LockKey(r.beatmapsetId, r.actor, g)}
                    \cup {LockReview(x.id) : x \in target}
                    \cup {LockKey(x.beatmapset_id, x.reviewer_id, x.game_mode) : x \in target}
                    \cup {LockSubmission(s.id) : s \in sub}
           done(row, log) ==
               /\ tx' = [tx EXCEPT ![p] =
                            [put |-> {row}, del |-> {}, delSubs |-> {s.id : s \in sub},
                             logs |-> log \o subLogs, locks |-> locks]]
               /\ cache' = cache \ {CacheKeyReviews(g)}
               /\ rq' = [rq EXCEPT ![p] = [@ EXCEPT !.pc = "commit", !.status = 200]]
       IN
       /\ locks \cap LocksOfOthers(p) = {}
       /\ IF r.existing.found
            THEN IF target = {}
                   THEN Throw(p, "Missing review immediately after update")
                   ELSE LET old == CHOOSE x \in target : TRUE
                            new == [old EXCEPT !.reason = r.reason,
                                               !.reviewed_at = clock,
                                               !.score = r.score]
                        IN /\ done(new,
                                   IF ReviewChanged(r.existing, r.score, r.reason)
                                     THEN <<LogReviewUpdated(r.actor, r.beatmapsetId,
                                              [id |-> r.existing.id, game_mode |-> g,
                                               score |-> r.existing.score,
                                               reason |-> r.existing.reason], new)>>
                                     ELSE <<>>)
                           /\ UNCHANGED nextReviewId
            ELSE IF ReviewKeyTaken(reviews, r.beatmapsetId, r.actor, g)
                   THEN Throw(p, "ER_DUP_ENTRY")
                   ELSE LET new == [id |-> nextReviewId, beatmapset_id |-> r.beatmapsetId,
                                    game_mode |-> g, reviewer_id |-> r.actor,
                                    score |-> r.score, reason |-> r.reason,
                                    reviewed_at |-> clock]
                        IN /\ done(new, <<LogReviewCreated(r.actor, new)>>)
                           /\ nextReviewId' = nextReviewId + 1
    /\ UNCHANGED <<reviews, submissions, beatmapsets, logs, clock>>
    /\ UNCHANGED <<consentVars, cachedReviews, nominationVars, roundVars, sessionVars>>

\* ---------------------------------------------------------- DELETE /review

\* the check of the reviewer left out
NotYourReviewNever(review, actor) == FALSE

\* review.reviewer_id !== res.typedLocals.user.id
NotYourReview(review, actor) == review.reviewer_id # actor

\* The request up to db.transact.
DeleteReview(p, D) ==
    /\ rq[p].pc = "idle"
    /\ clock < MaxReq
    /\ clock' = clock + 1
    /\ \E actor \in D.users, reviewId \in D.reviewIds :
        LET found == {x \in reviews : x.id = reviewId}
            r == [IdleReq EXCEPT !.op = "deleteReview", !.actor = actor]
        IN
        IF found = {}
            THEN Respond(p, r, 404, "Review not found")
        ELSE LET review == CHOOSE x \in found : TRUE IN
             IF NotYourReview(review, actor)
                 THEN Respond(p, r, 403, "This isn't your review")
             ELSE IF review.beatmapset_id \notin beatmapsets
                 THEN Respond(p, r, 500, "Missing beatmapset attached to review")
             ELSE Proceed(p, [r EXCEPT !.beatmapsetId = review.beatmapset_id,
                                       !.gameModes = <<review.game_mode>>,
                                       !.existing = [found |-> TRUE, id |-> review.id,
                                                     score |-> review.score,
                                                     reason |-> review.reason]])
    /\ UNCHANGED <<reviews, nextReviewId, submissions, beatmapsets, logs, cache, tx>>
    /\ UNCHANGED <<consentVars, cachedReviews, nominationVars, roundVars, sessionVars>>

\* The callback of db.transact: the DELETE, and the log of the review as it
\* was read before the transaction.
DeleteReviewTransact(p) ==
    /\ rq[p].pc = "transact"
    /\ rq[p].op = "deleteReview"
    /\ LET r == rq[p]
           target == {x \in reviews : x.id = r.existing.id}
           locks == {LockReview(r.existing.id)}
                    \cup {LockKey(x.beatmapset_id, x.reviewer_id, x.game_mode) : x \in target}
       IN
       /\ locks \cap LocksOfOthers(p) = {}
       /\ tx' = [tx EXCEPT ![p] =
                    [put |-> {}, del |-> {r.existing.id}, delSubs |-> {},
                     logs |-> <<[type |-> "reviewDeleted", user |-> r.actor,
                                 beatmapset |-> r.beatmapsetId,
                                 review |-> [id |-> r.existing.id,
                                             game_mode |-> r.gameModes[1],
                                             score |-> r.existing.score,
                                             reason |-> r.existing.reason]]>>,
                     locks |-> locks]]
       /\ rq' = [rq EXCEPT ![p] = [@ EXCEPT !.pc = "commit"]]
    /\ UNCHANGED <<reviews, nextReviewId, submissions, beatmapsets, logs, cache, clock>>
    /\ UNCHANGED <<consentVars, cachedReviews, nominationVars, roundVars, sessionVars>>

\* ------------------------------------------------------- POST /review-many

Range(seq) == {seq[i] : i \in 1..Len(seq)}

\* only the first requested game mode looked at
missingFirstGameMode(gameModes, osu) ==
    IF gameModes = <<>> THEN {} ELSE {Head(gameModes)} \ osu.game_modes

\* the requested game modes the beatmapset has no beatmaps in
missingGameModes(gameModes, osu) == Range(gameModes) \ osu.game_modes

\* The request up to db.transact.
PostReviewMany(p, D) ==
    /\ rq[p].pc = "idle"
    /\ clock < MaxReq
    /\ clock' = clock + 1
    /\ \E actor \in D.users, b \in D.beatmapsets, gs \in D.arrays,
          score \in D.scores, reason \in D.reasons, osu \in OsuBeatmapsetAnswers :
        LET r == [IdleReq EXCEPT !.op = "reviewMany", !.actor = actor,
                                 !.beatmapsetId = b, !.gameModes = gs,
                                 !.score = score, !.reason = reason,
                                 !.now = clock + 1,
                                 !.subs = OpenSubmissions(submissions, b, Range(gs), actor)]
        IN
        IF Len(gs) = 0
            THEN Respond(p, r, 422, "No game modes selected") /\ UNCHANGED beatmapsets
        ELSE IF score # 1 /\ score # 3
            THEN Respond(p, r, 422, "Invalid score") /\ UNCHANGED beatmapsets
        ELSE /\ StoreBeatmapset(osu, b)
             /\ IF ~osu.found
                    THEN Respond(p, r, 422, "Invalid beatmapset ID")
                ELSE IF osu.ranked_status > RankedStatusPending
                    THEN Respond(p, r, 422, "Beatmapset is already Ranked/Loved/Qualified")
                ELSE IF missingGameModes(gs, osu) # {}
                    THEN Respond(p, r, 422, "Beatmapset has no beatmaps in game mode")
                ELSE Proceed(p, [r EXCEPT !.beatmapset = osu])
    /\ UNCHANGED <<reviews, nextReviewId, submissions, logs, cache, tx>>
    /\ UNCHANGED <<consentVars, cachedReviews, nominationVars, roundVars, sessionVars>>

\* One turn of `for (const gameMode of req.body.gameModes)`: acc.rows are the
\* reviews as the transaction sees them.
ReviewManyUpsert(acc, r, gameMode) ==
    LET existing == existingReviewOf(acc.rows, r.beatmapsetId, r.actor, gameMode) IN
    IF existing.found
      THEN LET old == CHOOSE x \in acc.rows : x.id = existing.id
               new == [old EXCEPT !.reason = r.reason, !.reviewed_at = r.now,
                                  !.score = r.score]
           IN [acc EXCEPT !.rows = (acc.rows \ {old}) \cup {new},
                          !.logs = IF ReviewChanged(existing, r.score, r.reason)
                                     THEN Append(acc.logs,
                                            LogReviewUpdated(r.actor, r.beatmapsetId,
                                              [id |-> existing.id, game_mode |-> gameMode,
                                               score |-> existing.score,
                                               reason |-> existing.reason], new))
                                     ELSE acc.logs]
    ELSE IF ReviewKeyTaken(acc.rows, r.beatmapsetId, r.actor, gameMode)
      THEN [acc EXCEPT !.failed = TRUE]
      ELSE LET new == [id |-> acc.nextId, beatmapset_id |-> r.beatmapsetId,
                       game_mode |-> gameMode, reviewer_id |-> r.actor,
                       score |-> r.score, reason |-> r.reason,
                       reviewed_at |-> r.now]
           IN [acc EXCEPT !.rows = acc.rows \cup {new},
                          !.nextId = acc.nextId + 1,
                          !.logs = Append(acc.logs, LogReviewCreated(r.actor, new))]

RECURSIVE ReviewManyLoop(_, _, _)
ReviewManyLoop(acc, r, gameModes) ==
    IF gameModes = <<>> \/ acc.failed THEN acc
    ELSE ReviewManyLoop(ReviewManyUpsert(acc, r, Head(gameModes)), r, Tail(gameModes))

\* the rows of a set of submissions as one log record each, by ascending id
RECURSIVE SubmissionLogs(_, _)
SubmissionLogs(user, subs) ==
    IF subs = {} THEN <<>>
    ELSE LET s == CHOOSE x \in subs : \A y \in subs : x.id <= y.id
         IN <<LogSubmissionDeleted(user, s)>> \o SubmissionLogs(user, subs \ {s})

\* The callback of db.transact.
PostReviewManyTransact(p) ==
    /\ rq[p].pc = "transact"
    /\ rq[p].op = "reviewMany"
    /\ LET r == rq[p]
           acc == ReviewManyLoop([rows |-> reviews, nextId |-> nextReviewId,
                                  logs |-> SubmissionLogs(r.actor, r.subs),
                                  failed |-> FALSE], r, r.gameModes)
           put == acc.rows \ reviews
           locks == {LockKey(r.beatmapsetId, r.actor, g) : g \in Range(r.gameModes)}
                    \cup {LockReview(x.id) :
                            x \in {y \in reviews : /\ y.beatmapset_id = r.beatmapsetId
                                                   /\ y.reviewer_id = r.actor
                                                   /\ y.game_mode \in Range(r.gameModes)}}
                    \cup {LockSubmission(s.id) : s \in r.subs}
       IN
       /\ locks \cap LocksOfOthers(p) = {}
       /\ IF acc.failed
            THEN Throw(p, "ER_DUP_ENTRY")
            ELSE /\ tx' = [tx EXCEPT ![p] =
                             [put |-> put, del |-> {}, delSubs |-> {s.id : s \in r.subs},
                              logs |-> acc.logs, locks |-> locks]]
                 /\ nextReviewId' = acc.nextId
                 /\ cache' = cache \ {CacheKeyReviews(g) : g \in Range(r.gameModes)}
                 /\ rq' = [rq EXCEPT ![p] = [@ EXCEPT !.pc = "commit"]]
    /\ UNCHANGED <<reviews, submissions, beatmapsets, logs, clock>>
    /\ UNCHANGED <<consentVars, cachedReviews, nominationVars, roundVars, sessionVars>>

\* COMMIT of db.transact, and the code after `await db.transact(...)`.
TransactCommit(p) ==
    /\ rq[p].pc = "commit"
    /\ reviews' = ApplyReviews(reviews, tx[p])
    /\ submissions' = ApplySubmissions(submissions, tx[p])
    /\ logs' = logs \o tx[p].logs
    /\ tx' = [tx EXCEPT ![p] = NoTx]
    /\ IF rq[p].op = "review"
         THEN /\ rq' = [rq EXCEPT ![p] = Answered(rq[p], rq[p].status, "")]
              /\ UNCHANGED cache
         ELSE /\ rq' = [rq EXCEPT ![p] = Answered(rq[p], 204, "")]
              /\ cache' = IF rq[p].op = "deleteReview"
                            THEN cache \ {CacheKeyReviews(rq[p].gameModes[1])}
                            ELSE cache
    /\ UNCHANGED <<nextReviewId, beatmapsets, clock>>
    /\ UNCHANGED <<consentVars, cachedReviews, nominationVars, roundVars, sessionVars>>

\* ----------------------------------------------------- POST /mapper-consent

NoConsent == [found |-> FALSE, consent |-> "", consent_reason |-> ""]

IdleConsentReq ==
    [pc |-> "idle", actor |-> 0, userId |-> 0, consent |-> "", consent_reason |-> "",
     consentBeatmapsets |-> <<>>, currentConsent |-> NoConsent,
     currentConsentBeatmapsets |-> {}, resolvable |-> {}, status |-> 0, error |-> ""]

\* req.body and the actor of a POST /mapper-consent request
RequestOf(r) ==
    [actor |-> r.actor, userId |-> r.userId, consent |-> r.consent,
     consent_reason |-> r.consent_reason, consentBeatmapsets |-> r.consentBeatmapsets]

NoConsentTx == [consents |-> {}, consentBeatmapsets |-> {}, logs |-> <<>>, locks |-> {}]

\* What stays of a consent request once it is answered.
AnsweredConsent(status, error) ==
    [IdleConsentReq EXCEPT !.status = status, !.error = error]

RespondConsent(p, status, error) ==
    crq' = [crq EXCEPT ![p] = AnsweredConsent(status, error)]

\* the ids of a set of numbers, ascending
RECURSIVE Ascending(_)
Ascending(S) ==
    IF S = {} THEN <<>>
    ELSE LET m == CHOOSE x \in S : \A y \in S : x <= y IN <<m>> \o Ascending(S \ {m})

\* newConsentBeatmapsetIds.filter((id) => !currentConsentBeatmapsetIds.includes(id))
beatmapsetIdsAdded(entries, current) ==
    LET ids == [i \in DOMAIN entries |-> entries[i].beatmapset_id] IN
    SelectSeq(ids, LAMBDA id : id \notin {c.beatmapset_id : c \in current})

\* currentConsentBeatmapsetIds.filter((id) => !newConsentBeatmapsetIds.includes(id))
beatmapsetIdsRemoved(entries, current) ==
    Ascending({c.beatmapset_id : c \in current}
              \ {entries[i].beatmapset_id : i \in DOMAIN entries})

\* the ids the loop over beatmapsetIdsAdded has createOrRefreshBeatmapset
\* resolve (and store) before it meets one that is not resolved
RECURSIVE ResolvedBeforeFailure(_, _)
ResolvedBeforeFailure(added, resolvable) ==
    IF added = <<>> \/ Head(added) \notin resolvable THEN {}
    ELSE {Head(added)} \cup ResolvedBeforeFailure(Tail(added), resolvable)

\* a loop that looks at the first id of beatmapsetIdsAdded only
BeatmapsetNotFoundFirst(added, resolvable) ==
    added # <<>> /\ Head(added) \notin resolvable

\* the loop answers 404 for an id of beatmapsetIdsAdded
BeatmapsetNotFound(added, resolvable) ==
    \E i \in DOMAIN added : added[i] \notin resolvable

\* the comparison of the ids turned around
ConsentForbiddenOfSelf(actor, userId) == userId = actor /\ ~hasRoleCaptainAny(actor)

\* user.id !== res.typedLocals.user.id && !hasRole(Role.captain)
ConsentForbidden(actor, userId) == userId # actor /\ ~hasRoleCaptainAny(actor)

\* currentConsent.consent !== newConsent.consent ||
\* currentConsent.consent_reason !== newConsent.consent_reason
ConsentChanged(current, consent, reason) ==
    current.consent # consent \/ current.consent_reason # reason

\* The request up to db.transact.  osuUser and osuBeatmapsets are what the
\* content collaborator can resolve; what is stored locally it resolves.
PostMapperConsent(p, D) ==
    /\ crq[p].pc = "idle"
    /\ clock < MaxReq
    /\ clock' = clock + 1
    /\ \E actor \in D.consentActors, userId \in D.consentUsers, consent \in D.consentValues,
          entries \in D.consentArrays,
          osuUser \in BOOLEAN, osuBeatmapsets \in SUBSET ConsentBeatmapsetIds :
        LET resolvable == osuBeatmapsets \cup beatmapsets
            mine == {c \in consents : c.user_id = userId}
            current == {c \in consentBeatmapsets : c.user_id = userId}
            added == beatmapsetIdsAdded(entries, current)
            r == [IdleConsentReq EXCEPT
                    !.pc = "transact", !.actor = actor, !.userId = userId,
                    !.consent = consent, !.consent_reason = "a",
                    !.consentBeatmapsets = entries,
                    !.currentConsent =
                        IF mine = {} THEN NoConsent
                        ELSE LET c == CHOOSE x \in mine : TRUE IN
                             [found |-> TRUE, consent |-> c.consent,
                              consent_reason |-> c.consent_reason],
                    !.currentConsentBeatmapsets = current,
                    !.resolvable = resolvable]
        IN
        IF consent = "unreachable"
            THEN RespondConsent(p, 422, "The unreachable consent option is no longer supported")
                 /\ UNCHANGED <<users, beatmapsets>>
        ELSE IF userId \notin users /\ ~osuUser
            THEN RespondConsent(p, 404, "User not found")
                 /\ UNCHANGED <<users, beatmapsets>>
        ELSE /\ users' = users \cup {userId}
             /\ IF ConsentForbidden(actor, userId)
                    THEN RespondConsent(p, 403, "Must be a captain to update consents of other users")
                         /\ UNCHANGED beatmapsets
                    ELSE /\ beatmapsets' = beatmapsets
                                           \cup ResolvedBeforeFailure(added, resolvable)
                         /\ IF BeatmapsetNotFound(added, resolvable)
                              THEN RespondConsent(p, 404, "Beatmapset not found")
                              ELSE crq' = [crq EXCEPT ![p] = r]
    /\ UNCHANGED <<consents, consentBeatmapsets, ctx, logs, cache, lastConsent>>
    /\ UNCHANGED <<reviewVars, cachedReviews, nominationVars, roundVars, sessionVars>>

\* a table mapper_consents without its key
ConsentKeyNeverTaken(rows, userId) == FALSE

\* mapper_consents holds one row per mapper: an INSERT for a user who has a
\* row fails
ConsentKeyTaken(rows, userId) == \E c \in rows : c.user_id = userId

\* mapper_consent_beatmapsets holds one row per (user_id, beatmapset_id)
ConsentBeatmapsetKeyTaken(rows, userId, beatmapsetId) ==
    \E c \in rows : c.user_id = userId /\ c.beatmapset_id = beatmapsetId

\* Lines 107-143: the row of mapper_consents.
ConsentUpsert(acc, r, now) ==
    LET fields == [consent |-> r.consent, consent_reason |-> r.consent_reason,
                   updated_at |-> now, updater_id |-> r.actor]
    IN
    IF ~r.currentConsent.found
      THEN IF ConsentKeyTaken(acc.consents, r.userId)
             THEN [acc EXCEPT !.failed = "ER_DUP_ENTRY"]
             ELSE [acc EXCEPT
                     !.consents = @ \cup
                                  {[user_id |-> r.userId, consent |-> fields.consent,
                                    consent_reason |-> fields.consent_reason,
                                    updated_at |-> fields.updated_at,
                                    updater_id |-> fields.updater_id]},
                     !.logs = Append(acc.logs,
                                [type |-> "mapperConsentCreated", actor |-> r.actor,
                                 user |-> r.userId, consent |-> r.consent,
                                 reason |-> r.consent_reason])]
    ELSE IF ConsentChanged(r.currentConsent, r.consent, r.consent_reason)
      THEN [acc EXCEPT
              !.consents = {[c EXCEPT !.consent = fields.consent,
                                      !.consent_reason = fields.consent_reason,
                                      !.updated_at = fields.updated_at,
                                      !.updater_id = fields.updater_id] : c \in acc.consents},
              !.logs = Append(acc.logs,
                         [type |-> "mapperConsentUpdated", actor |-> r.actor,
                          user |-> r.userId,
                          from |-> [consent |-> r.currentConsent.consent,
                                    reason |-> r.currentConsent.consent_reason],
                          to |-> [consent |-> r.consent, reason |-> r.consent_reason]])]
    ELSE acc

\* Lines 155-181: one log record for each removed beatmapset.
RECURSIVE ConsentRemovedLogs(_, _, _)
ConsentRemovedLogs(acc, r, removed) ==
    IF removed = <<>> \/ acc.failed # "" THEN acc
    ELSE IF Head(removed) \notin beatmapsets
      THEN [acc EXCEPT !.failed = "Missing beatmapset for logging consent beatmapset delete"]
    ELSE LET c == CHOOSE x \in r.currentConsentBeatmapsets : x.beatmapset_id = Head(removed)
         IN ConsentRemovedLogs(
              [acc EXCEPT !.logs = Append(acc.logs,
                  [type |-> "mapperConsentBeatmapsetDeleted", actor |-> r.actor,
                   user |-> r.userId, beatmapset |-> Head(removed),
                   consent |-> c.consent, reason |-> c.consent_reason])],
              r, Tail(removed))

\* Lines 183-248: one turn of `for (const consentBeatmapset of newConsentBeatmapsets)`.
ConsentBeatmapsetUpsert(acc, r, e) ==
    LET current == {c \in r.currentConsentBeatmapsets : c.beatmapset_id = e.beatmapset_id}
        stored == {c \in acc.consentBeatmapsets : c.beatmapset_id = e.beatmapset_id}
    IN
    IF e.beatmapset_id \notin beatmapsets
      THEN [acc EXCEPT !.failed =
              "Missing beatmapset for logging consent beatmapset create or update"]
    ELSE IF current = {}
      THEN IF ConsentBeatmapsetKeyTaken(acc.consentBeatmapsets, r.userId, e.beatmapset_id)
             THEN [acc EXCEPT !.failed = "ER_DUP_ENTRY"]
             ELSE [acc EXCEPT
                     !.consentBeatmapsets = @ \cup
                        {[user_id |-> r.userId, beatmapset_id |-> e.beatmapset_id,
                          consent |-> e.consent, consent_reason |-> e.consent_reason]},
                     !.logs = Append(acc.logs,
                        [type |-> "mapperConsentBeatmapsetCreated", actor |-> r.actor,
                         user |-> r.userId, beatmapset |-> e.beatmapset_id,
                         consent |-> e.consent, reason |-> e.consent_reason])]
    ELSE LET c == CHOOSE x \in current : TRUE IN
         IF c.consent # e.consent \/ c.consent_reason # e.consent_reason
           THEN [acc EXCEPT
                   !.consentBeatmapsets = (@ \ stored) \cup
                      {[x EXCEPT !.consent = e.consent,
                                 !.consent_reason = e.consent_reason] : x \in stored},
                   !.logs = Append(acc.logs,
                      [type |-> "mapperConsentBeatmapsetUpdated", actor |-> r.actor,
                       user |-> r.userId, beatmapset |-> e.beatmapset_id,
                       from |-> [consent |-> c.consent, reason |-> c.consent_reason],
                       to |-> [consent |-> e.consent, reason |-> e.consent_reason]])]
           ELSE acc

RECURSIVE ConsentBeatmapsetLoop(_, _, _)
ConsentBeatmapsetLoop(acc, r, entries) ==
    IF entries = <<>> \/ acc.failed # "" THEN acc
    ELSE ConsentBeatmapsetLoop(ConsentBeatmapsetUpsert(acc, r, Head(entries)),
                               r, Tail(entries))

\* The callback of db.transact.  acc holds the rows of the target user as the
\* transaction sees them.
PostMapperConsentTransact(p) ==
    /\ crq[p].pc = "transact"
    /\ LET r == crq[p]
           removed == beatmapsetIdsRemoved(r.consentBeatmapsets, r.currentConsentBeatmapsets)
           a0 == [consents |-> {c \in consents : c.user_id = r.userId},
                  consentBeatmapsets |->
                      {c \in consentBeatmapsets : c.user_id = r.userId},
                  logs |-> <<>>, failed |-> ""]
           a1 == ConsentUpsert(a0, r, clock)
           a2 == IF a1.failed # "" THEN a1
                 ELSE ConsentRemovedLogs(
                        [a1 EXCEPT !.consentBeatmapsets =
                            {c \in @ : c.beatmapset_id \notin
                                         {removed[i] : i \in DOMAIN removed}}],
                        r, removed)
           a3 == ConsentBeatmapsetLoop(a2, r, r.consentBeatmapsets)
       IN
       /\ LockConsent(r.userId) \notin LocksOfOthers(p)
       /\ IF a3.failed # ""
            THEN /\ RespondConsent(p, 500, a3.failed)
                 /\ UNCHANGED ctx
            ELSE /\ ctx' = [ctx EXCEPT ![p] =
                              [consents |-> a3.consents,
                               consentBeatmapsets |-> a3.consentBeatmapsets,
                               logs |-> a3.logs, locks |-> {LockConsent(r.userId)}]]
                 /\ crq' = [crq EXCEPT ![p] = [@ EXCEPT !.pc = "commit"]]
    /\ UNCHANGED <<users, consents, consentBeatmapsets, beatmapsets, logs, cache, clock,
                   lastConsent>>
    /\ UNCHANGED <<reviewVars, cachedReviews, nominationVars, roundVars, sessionVars>>

\* a handler that leaves the cache as it is
deleteCacheNever(keys, held) == held

\* deleteCache(key) for each of keys
deleteCache(keys, held) == held \ keys

\* COMMIT of db.transact: the rows and the log records become visible.
PostMapperConsentCommit(p) ==
    /\ crq[p].pc = "commit"
    /\ consents' = {c \in consents : c.user_id # crq[p].userId} \cup ctx[p].consents
    /\ consentBeatmapsets' =
          {c \in consentBeatmapsets : c.user_id # crq[p].userId}
          \cup ctx[p].consentBeatmapsets
    /\ logs' = logs \o ctx[p].logs
    /\ ctx' = [ctx EXCEPT ![p] = NoConsentTx]
    /\ crq' = [crq EXCEPT ![p] = [IdleConsentReq EXCEPT !.pc = "committed"]]
    /\ lastConsent' = RequestOf(crq[p])
    /\ UNCHANGED <<users, beatmapsets, clock, cache>>
    /\ UNCHANGED <<reviewVars, cachedReviews, nominationVars, roundVars, sessionVars>>

\* Lines 251-282, after db.transact has returned: the three deleteCache
\* calls and the answer.
PostMapperConsentRespond(p) ==
    /\ crq[p].pc = "committed"
    /\ cache' = deleteCache(CacheKeysConsent, cache)
    /\ RespondConsent(p, 200, "")
    /\ UNCHANGED <<users, consents, consentBeatmapsets, beatmapsets, logs, clock, ctx,
                   lastConsent>>
    /\ UNCHANGED <<reviewVars, cachedReviews, nominationVars, roundVars, sessionVars>>

\* ------------------------------------------------- POST /nomination-submit

\* a column that IS NULL
NullText == "<NULL>"

\* DescriptionState of loved-bridge
DescriptionStateNotReviewed == "not_reviewed"
DescriptionStateReviewed == "reviewed"

\* MetadataState of loved-bridge
MetadataStateUnchecked == "unchecked"
MetadataStateNeedsChange == "needs_change"
MetadataStateGood == "good"

\* the columns INSERT INTO nominations leaves to their defaults; 0 stands
\* for a description_author_id that IS NULL
NominationDefaults ==
    [description |-> NullText, description_author_id |-> 0,
     description_state |-> DescriptionStateNotReviewed,
     metadata_state |-> MetadataStateUnchecked,
     overwrite_artist |-> NullText, overwrite_title |-> NullText]

IdleNominationReq ==
    [pc |-> "idle", op |-> "", actor |-> 0, roundId |-> 0, gameMode |-> 0,
     beatmapsetId |-> 0, parentId |-> 0, nominationCount |-> 0, nominationId |-> 0,
     beatmapset |-> NoBeatmapset, status |-> 0, error |-> ""]

NoNominationTx ==
    [nominations |-> {}, nominators |-> {}, delete |-> 0, statements |-> <<>>,
     locks |-> {}]

\* What stays of a nomination request once it is answered.
AnsweredNomination(r, status, error) ==
    [IdleNominationReq EXCEPT !.op = r.op, !.status = status, !.error = error]

RespondNomination(p, r, status, error) ==
    nrq' = [nrq EXCEPT ![p] = AnsweredNomination(r, status, error)]

\* SELECT 1 FROM nominations WHERE id = ?
parentNomination(rows, parentId) == \E n \in rows : n.id = parentId

\* SELECT 1 FROM nominations WHERE round_id = ? AND game_mode = ? AND beatmapset_id = ?
existingNomination(rows, roundId, gameMode, beatmapsetId) ==
    \E n \in rows :
        n.round_id = roundId /\ n.game_mode = gameMode /\ n.beatmapset_id = beatmapsetId

\* SELECT COUNT(*) FROM nominations WHERE round_id = ? AND game_mode = ?
nominationCount(rows, roundId, gameMode) ==
    Cardinality({n \in rows : n.round_id = roundId /\ n.game_mode = gameMode})

\* the 422 the beatmapset earns in POST /nomination-submit, "" when none
NominationBeatmapsetError(osu, gameMode) ==
    IF ~osu.found THEN "Invalid beatmapset ID"
    ELSE IF gameMode \notin osu.game_modes
        THEN "Beatmapset has no beatmaps in game mode"
    ELSE ""

\* The request up to db.transact.  A handler slot serves one request at a
\* time: the slot has no edit request under way.
PostNominationSubmit(p, D) ==
    /\ nrq[p].pc = "idle"
    /\ erq[p].pc = "idle"
    /\ clock < MaxReq
    /\ clock' = clock + 1
    /\ \E actor \in D.nominationActors, roundId \in D.roundIds, gameMode \in D.gameModes,
          beatmapsetId \in D.nominationBeatmapsets, parentId \in D.parentIds,
          osu \in OsuBeatmapsetAnswers :
        LET r == [IdleNominationReq EXCEPT
                    !.op = "nominationSubmit", !.actor = actor, !.roundId = roundId,
                    !.gameMode = gameMode, !.beatmapsetId = beatmapsetId,
                    !.parentId = parentId, !.beatmapset = osu,
                    !.nominationCount = nominationCount(nominations, roundId, gameMode)]
        IN
        IF parentId # 0 /\ ~parentNomination(nominations, parentId)
            THEN /\ RespondNomination(p, r, 422, "Invalid parent nomination ID")
                 /\ UNCHANGED beatmapsets
        ELSE /\ StoreBeatmapset(osu, beatmapsetId)
             /\ IF NominationBeatmapsetError(osu, gameMode) # ""
                    THEN RespondNomination(p, r, 422, NominationBeatmapsetError(osu, gameMode))
                ELSE IF existingNomination(nominations, roundId, gameMode, beatmapsetId)
                    THEN RespondNomination(p, r, 422, "Duplicate nomination")
                ELSE nrq' = [nrq EXCEPT ![p] = [r EXCEPT !.pc = "transact"]]
    /\ UNCHANGED <<nominations, nextNominationId, nominators, assignees, excludedBeatmaps,
                   ntx, logs, cache>>
    /\ UNCHANGED <<reviewVars, consentVars, cachedReviews, editVars, roundVars, sessionVars>>

\* a table nominations without its key
NominationKeyNeverTaken(rows, roundId, gameMode, beatmapsetId) == FALSE

\* nominations is unique per (round_id, game_mode, beatmapset_id): an INSERT
\* of a key that a row holds fails
NominationKeyTaken(rows, roundId, gameMode, beatmapsetId) ==
    existingNomination(rows, roundId, gameMode, beatmapsetId)

\* no row of nomination_nominators
NoNominatorRows(nominationId, actor) == {}

\* INSERT INTO nomination_nominators: the creating actor
NominatorRows(nominationId, actor) ==
    {[nomination_id |-> nominationId, nominator_id |-> actor]}

\* The callback of db.transact: the two INSERTs.
PostNominationSubmitTransact(p) ==
    /\ nrq[p].pc = "transact"
    /\ nrq[p].op = "nominationSubmit"
    /\ LET r == nrq[p]
           new == [id |-> nextNominationId, beatmapset_id |-> r.beatmapsetId,
                   game_mode |-> r.gameMode, order |-> r.nominationCount,
                   parent_id |-> r.parentId, round_id |-> r.roundId]
                  @@ NominationDefaults
           lock == LockNominationKey(r.roundId, r.gameMode, r.beatmapsetId)
       IN
       /\ lock \notin LocksOfOthers(p)
       /\ nextNominationId' = nextNominationId + 1
       /\ IF NominationKeyTaken(nominations, r.roundId, r.gameMode, r.beatmapsetId)
            THEN /\ RespondNomination(p, r, 500, "ER_DUP_ENTRY")
                 /\ UNCHANGED ntx
            ELSE /\ ntx' = [ntx EXCEPT ![p] =
                              [nominations |-> {new},
                               nominators |-> NominatorRows(new.id, r.actor),
                               delete |-> 0,
                               statements |-> <<"nominations", "nomination_nominators">>,
                               locks |-> {lock, LockNomination(new.id)}]]
                 /\ nrq' = [nrq EXCEPT ![p] =
                              [@ EXCEPT !.pc = "commit", !.nominationId = new.id]]
    /\ UNCHANGED <<nominations, nominators, assignees, excludedBeatmaps,
                   beatmapsets, logs, cache, clock>>
    /\ UNCHANGED <<reviewVars, consentVars, cachedReviews, editVars, roundVars, sessionVars>>

\* --------------------------------------------------------- DELETE /nomination

\* SELECT 1 FROM nomination_nominators WHERE nomination_id = ? AND nominator_id = ?
isNominator(rows, nominationId, actor) ==
    \E n \in rows : n.nomination_id = nominationId /\ n.nominator_id = actor

\* a check that lets every actor through
DeleteNominationForbiddenNever(rows, nominationId, actor) == FALSE

\* !roles.god and no row of nomination_nominators for the actor
DeleteNominationForbidden(rows, nominationId, actor) ==
    ~rolesGod(actor) /\ ~isNominator(rows, nominationId, actor)

\* The request up to db.transact.
DeleteNomination(p, D) ==
    /\ nrq[p].pc = "idle"
    /\ erq[p].pc = "idle"
    /\ clock < MaxReq
    /\ clock' = clock + 1
    /\ \E actor \in D.nominationActors, nominationId \in D.nominationIds :
        LET r == [IdleNominationReq EXCEPT
                    !.op = "deleteNomination", !.actor = actor,
                    !.nominationId = nominationId]
        IN
        IF DeleteNominationForbidden(nominators, nominationId, actor)
            THEN RespondNomination(p, r, 403, "")
            ELSE nrq' = [nrq EXCEPT ![p] = [r EXCEPT !.pc = "transact"]]
    /\ UNCHANGED <<nominations, nextNominationId, nominators, assignees, excludedBeatmaps,
                   ntx, beatmapsets, logs, cache>>
    /\ UNCHANGED <<reviewVars, consentVars, cachedReviews, editVars, roundVars, sessionVars>>

\* the tables the callback of db.transact deletes from, in its order
DeleteNominationStatements ==
    <<"nomination_assignees", "nomination_excluded_beatmaps", "nomination_nominators",
      "nominations">>

\* a DELETE that removes nothing
RowsOfNoNomination(rows, nominationId) == {}

\* the rows of a table that DELETE ... WHERE nomination_id = ? removes
RowsOfNomination(rows, nominationId) == {x \in rows : x.nomination_id = nominationId}

\* AssigneeType of loved-bridge: metadata, moderator
AssigneeTypes == {0, 1}

\* the rows the four DELETEs lock
DeleteNominationLocks(nominationId) ==
    {LockNomination(nominationId), LockNominationRef(nominationId),
     LockNominators(nominationId), LockExcludedBeatmaps(nominationId)}
        \cup {LockAssignees(nominationId, type) : type \in AssigneeTypes}

\* The callback of db.transact: the four DELETEs, in the order assignees,
\* excluded beatmaps, nominators, nomination.  They write nothing before
\* COMMIT; the transaction holds the lock of the nomination.
DeleteNominationTransact(p) ==
    /\ nrq[p].pc = "transact"
    /\ nrq[p].op = "deleteNomination"
    /\ DeleteNominationLocks(nrq[p].nominationId) \cap LocksOfOthers(p) = {}
    /\ ntx' = [ntx EXCEPT ![p] =
                 [nominations |-> {}, nominators |-> {},
                  delete |-> nrq[p].nominationId,
                  statements |-> DeleteNominationStatements,
                  locks |-> DeleteNominationLocks(nrq[p].nominationId)]]
    /\ nrq' = [nrq EXCEPT ![p] = [@ EXCEPT !.pc = "commit"]]
    /\ UNCHANGED <<nominations, nextNominationId, nominators, assignees, excludedBeatmaps,
                   beatmapsets, logs, cache, clock>>
    /\ UNCHANGED <<reviewVars, consentVars, cachedReviews, editVars, roundVars, sessionVars>>

\* COMMIT at the end of db.transact, then the answer: the nomination as read
\* back (POST /nomination-submit) or 204 (DELETE /nomination).
NominationCommit(p) ==
    /\ nrq[p].pc = "commit"
    /\ LET t == ntx[p] IN
       /\ assignees' = assignees \ RowsOfNomination(assignees, t.delete)
       /\ excludedBeatmaps' = excludedBeatmaps \ RowsOfNomination(excludedBeatmaps, t.delete)
       /\ nominators' = (nominators \ RowsOfNomination(nominators, t.delete))
                        \cup t.nominators
       /\ nominations' = {n \in nominations : n.id # t.delete} \cup t.nominations
    /\ ntx' = [ntx EXCEPT ![p] = NoNominationTx]
    /\ RespondNomination(p, nrq[p],
                         IF nrq[p].op = "deleteNomination" THEN 204 ELSE 200, "")
    /\ UNCHANGED <<nextNominationId, beatmapsets, logs, cache, clock>>
    /\ UNCHANGED <<reviewVars, consentVars, cachedReviews, editVars, roundVars, sessionVars>>

\* ----------------------------------------------------- POST /update-nominators

IdleEditReq ==
    [pc |-> "idle", op |-> "", actor |-> 0, nominationId |-> 0,
     description |-> NullText, prevDescription |-> NullText, prevAuthorId |-> 0,
     prevState |-> "", gameMode |-> 0, beatmapsetId |-> 0,
     state |-> "", artist |-> NullText, title |-> NullText,
     ids |-> <<>>, creators |-> [given |-> FALSE, names |-> <<>>], type |-> 0,
     orderMap |-> <<>>,
     forced |-> FALSE, status |-> 0, error |-> ""]

NoEditTx ==
    [putNominations |-> {}, delNominators |-> {}, putNominators |-> {},
     delAssignees |-> {}, putAssignees |-> {}, delCreators |-> {}, putCreators |-> {},
     delExcluded |-> {}, putExcluded |-> {},
     locks |-> {}]

\* What stays of an edit request once it is answered.
AnsweredEdit(r, status, error) ==
    [IdleEditReq EXCEPT !.op = r.op, !.actor = r.actor, !.nominationId = r.nominationId,
                        !.type = r.type, !.status = status, !.error = error]

RespondEdit(p, r, status, error) ==
    erq' = [erq EXCEPT ![p] = AnsweredEdit(r, status, error)]

\* the guard isCaptain
isCaptain(user) == hasRoleCaptainAny(user)

\* The guard and the request up to db.transact.
UpdateNominators(p, D) ==
    /\ erq[p].pc = "idle"
    /\ nrq[p].pc = "idle"
    /\ clock < MaxReq
    /\ clock' = clock + 1
    /\ \E actor \in D.captainActors, nominationId \in D.nominationIds,
          nominatorIds \in D.nominatorIds :
        LET r == [IdleEditReq EXCEPT
                    !.op = "updateNominators", !.actor = actor,
                    !.nominationId = nominationId, !.ids = nominatorIds]
        IN
        IF ~isCaptain(actor)
            THEN RespondEdit(p, r, 403, "")
            ELSE erq' = [erq EXCEPT ![p] = [r EXCEPT !.pc = "transact"]]
    /\ UNCHANGED <<nominations, nextNominationId, nominators, assignees, excludedBeatmaps,
                   nrq, ntx, creators, etx, beatmapsets, logs, cache>>
    /\ UNCHANGED <<reviewVars, consentVars, cachedReviews, roundVars, sessionVars>>

\* an INSERT of the first id only
NominatorRowsOfFirst(nominationId, nominatorIds) ==
    {[nomination_id |-> nominationId, nominator_id |-> nominatorIds[i]] :
        i \in DOMAIN nominatorIds \cap {1}}

\* the rows INSERT INTO nomination_nominators ... VALUES ? adds
NominatorRowsOf(nominationId, nominatorIds) ==
    {[nomination_id |-> nominationId, nominator_id |-> nominatorIds[i]] :
        i \in DOMAIN nominatorIds}

\* a table without the foreign key: every INSERT finds its nomination
ReferencesNominationAlways(rows, nominationId) == TRUE

\* the foreign key nomination_id of nomination_nominators, nomination_assignees
\* and nomination_excluded_beatmaps: the INSERT of a row finds its nomination
ReferencesNomination(rows, nominationId) == \E n \in rows : n.id = nominationId

\* the locks of the INSERT of child rows of a nomination
ReferenceLocks(nominationId, ids) ==
    IF Len(ids) > 0 THEN {LockNominationRef(nominationId)} ELSE {}

\* the INSERT of child rows waits for a transaction that wrote the nomination
ReferenceFree(p, nominationId, ids) ==
    Len(ids) > 0 => LockNomination(nominationId) \notin LocksOfOthers(p)

\* the INSERT of child rows fails with ER_NO_REFERENCED_ROW_2
ReferenceMissing(nominationId, ids) ==
    Len(ids) > 0 /\ ~ReferencesNomination(nominations, nominationId)

\* The callback of db.transact: the DELETE of the nomination's nominators and,
\* for a non-empty array, the INSERT of the new ones.
UpdateNominatorsTransact(p) ==
    /\ erq[p].pc = "transact"
    /\ erq[p].op = "updateNominators"
    /\ LockNominators(erq[p].nominationId) \notin LocksOfOthers(p)
    /\ ReferenceFree(p, erq[p].nominationId, erq[p].ids)
    /\ IF ReferenceMissing(erq[p].nominationId, erq[p].ids)
          THEN /\ RespondEdit(p, erq[p], 500, "ER_NO_REFERENCED_ROW_2")
               /\ UNCHANGED etx
          ELSE /\ etx' = [etx EXCEPT ![p] =
                            [NoEditTx EXCEPT
                               !.delNominators =
                                   RowsOfNomination(nominators, erq[p].nominationId),
                               !.putNominators =
                                   IF Len(erq[p].ids) > 0
                                       THEN NominatorRowsOf(erq[p].nominationId, erq[p].ids)
                                       ELSE {},
                               !.locks = {LockNominators(erq[p].nominationId)}
                                   \cup ReferenceLocks(erq[p].nominationId, erq[p].ids)]]
               /\ erq' = [erq EXCEPT ![p] = [@ EXCEPT !.pc = "commit"]]
    /\ UNCHANGED <<nominations, nextNominationId, nominators, assignees, excludedBeatmaps,
                   nrq, ntx, creators, beatmapsets, logs, cache, clock>>
    /\ UNCHANGED <<reviewVars, consentVars, cachedReviews, roundVars, sessionVars>>

\* the rows of nominations after the UPDATEs of a transaction
ApplyNominations(rows, put) ==
    {n \in rows : n.id \notin {w.id : w \in put}} \cup put

\* COMMIT at the end of db.transact of an edit handler, then the rest of the
\* handler: the read of what it answers, and the answer.
EditCommit(p) ==
    /\ erq[p].pc = "commit"
    /\ LET t == etx[p] IN
       /\ nominations' = ApplyNominations(nominations, t.putNominations)
       /\ nominators' = (nominators \ t.delNominators) \cup t.putNominators
       /\ assignees' = (assignees \ t.delAssignees) \cup t.putAssignees
       /\ creators' = (creators \ t.delCreators) \cup t.putCreators
       /\ excludedBeatmaps' = (excludedBeatmaps \ t.delExcluded) \cup t.putExcluded
    /\ etx' = [etx EXCEPT ![p] = NoEditTx]
    /\ RespondEdit(p, erq[p],
                   IF erq[p].op \in {"updateNominationOrder", "updateExcludedBeatmaps"}
                       THEN 204 ELSE 200, "")
    /\ UNCHANGED <<nextNominationId, nrq, ntx,
                   beatmapsets, logs, cache, clock>>
    /\ UNCHANGED <<reviewVars, consentVars, cachedReviews, roundVars, sessionVars>>

\* ------------------------------------------- POST /nomination-edit-description

\* SELECT ... FROM nominations WHERE id = ?
NominationsOfId(rows, nominationId) == {n \in rows : n.id = nominationId}

\* a check that does not look at description_state
DescriptionForbiddenIgnoringState(actor, gameMode, prevState, prevDescription) ==
    /\ ~rolesGameModes(actor, gameMode)
    /\ ~(prevDescription # NullText /\ rolesNews(actor))

\* lines 511-514: neither a captain of the game mode editing a description
\* that is not reviewed, nor a news author editing an existing description
DescriptionForbidden(actor, gameMode, prevState, prevDescription) ==
    /\ ~(prevState # DescriptionStateReviewed /\ rolesGameModes(actor, gameMode))
    /\ ~(prevDescription # NullText /\ rolesNews(actor))

\* a check that lets every actor clear a description
CantRemoveDescriptionNever(actor, gameMode, description) == FALSE

\* line 518: only a captain of the game mode sets the description to null
CantRemoveDescription(actor, gameMode, description) ==
    ~rolesGameModes(actor, gameMode) /\ description = NullText

\* The request up to the UPDATE: the read of the nomination and the checks.
EditDescription(p, D) ==
    /\ erq[p].pc = "idle"
    /\ nrq[p].pc = "idle"
    /\ clock < MaxReq
    /\ clock' = clock + 1
    /\ \E actor \in D.descriptionActors, nominationId \in D.nominationIds,
          description \in D.descriptions :
        LET r == [IdleEditReq EXCEPT
                    !.op = "editDescription", !.actor = actor,
                    !.nominationId = nominationId, !.description = description]
            found == NominationsOfId(nominations, nominationId)
        IN
        IF found = {}
            THEN RespondEdit(p, r, 422, "Invalid nomination ID")
        ELSE LET existing == CHOOSE n \in found : TRUE IN
             IF DescriptionForbidden(actor, existing.game_mode,
                                     existing.description_state, existing.description)
                 THEN RespondEdit(p, r, 403, "")
             ELSE IF CantRemoveDescription(actor, existing.game_mode, description)
                 THEN RespondEdit(p, r, 403, "Can't remove description as editor")
             ELSE erq' = [erq EXCEPT ![p] =
                            [r EXCEPT !.pc = "update",
                                      !.prevDescription = existing.description,
                                      !.prevAuthorId = existing.description_author_id,
                                      !.prevState = existing.description_state,
                                      !.gameMode = existing.game_mode]]
    /\ UNCHANGED <<nominations, nextNominationId, nominators, assignees, excludedBeatmaps,
                   nrq, ntx, creators, etx, beatmapsets, logs, cache>>
    /\ UNCHANGED <<reviewVars, consentVars, cachedReviews, roundVars, sessionVars>>

\* an author that is always the acting user
descriptionAuthorIdOfActor(actor, prevDescription, prevAuthorId, description) ==
    IF description = NullText THEN 0 ELSE actor

\* lines 530-534: the description_author_id the UPDATE sets
descriptionAuthorId(actor, prevDescription, prevAuthorId, description) ==
    IF description = NullText THEN 0
    ELSE IF prevDescription = NullText THEN actor
    ELSE prevAuthorId

\* a state that is reviewed whenever a news author writes
descriptionStateOfNews(actor, prevDescription, description) ==
    IF rolesNews(actor) THEN DescriptionStateReviewed ELSE DescriptionStateNotReviewed

\* lines 535-537: the description_state the UPDATE sets
descriptionState(actor, prevDescription, description) ==
    IF rolesNews(actor) /\ prevDescription # NullText /\ description # NullText
        THEN DescriptionStateReviewed
        ELSE DescriptionStateNotReviewed

\* UPDATE nominations SET description = ?, description_author_id = ?,
\* description_state = ? WHERE id = ?
UpdateDescription(rows, r) ==
    {IF n.id = r.nominationId
        THEN [n EXCEPT
                !.description = r.description,
                !.description_author_id =
                    descriptionAuthorId(r.actor, r.prevDescription, r.prevAuthorId,
                                        r.description),
                !.description_state =
                    descriptionState(r.actor, r.prevDescription, r.description)]
        ELSE n : n \in rows}

\* The UPDATE, computed from what the handler read before it, then the read
\* of the nomination and the answer.  The statement waits for a transaction
\* that holds the row.
EditDescriptionUpdate(p) ==
    /\ erq[p].pc = "update"
    /\ LockNomination(erq[p].nominationId) \notin LocksOfOthers(p)
    /\ nominations' = UpdateDescription(nominations, erq[p])
    /\ RespondEdit(p, erq[p], 200, "")
    /\ UNCHANGED <<nextNominationId, nominators, assignees, excludedBeatmaps,
                   nrq, ntx, creators, etx, beatmapsets, logs, cache, clock>>
    /\ UNCHANGED <<reviewVars, consentVars, cachedReviews, roundVars, sessionVars>>

\* ---------------------------------------------- POST /nomination-edit-metadata

\* !roles.metadata && !roles.news
MetadataForbidden(actor) == ~rolesMetadata(actor) /\ ~rolesNews(actor)

\* an UPDATE that news authors run too
UpdatesMetadataOrNews(actor) == rolesMetadata(actor) \/ rolesNews(actor)

\* line 588: the UPDATE of the nomination is for roles.metadata
UpdatesMetadata(actor) == rolesMetadata(actor)

\* The request up to db.transact: the role check and the read of the
\* nomination.
EditMetadata(p, D) ==
    /\ erq[p].pc = "idle"
    /\ nrq[p].pc = "idle"
    /\ clock < MaxReq
    /\ clock' = clock + 1
    /\ \E actor \in D.metadataActors, nominationId \in D.nominationIds,
          state \in D.metadataStates, artist \in D.artists, title \in D.titles,
          creatorNames \in D.creatorArrays :
        LET r == [IdleEditReq EXCEPT
                    !.op = "editMetadata", !.actor = actor,
                    !.nominationId = nominationId, !.state = state,
                    !.artist = artist, !.title = title, !.creators = creatorNames]
            found == NominationsOfId(nominations, nominationId)
        IN
        IF MetadataForbidden(actor)
            THEN RespondEdit(p, r, 403, "Must be a metadata checker or news author")
        ELSE IF found = {}
            THEN RespondEdit(p, r, 422, "Invalid nomination ID")
        ELSE LET nomination == CHOOSE n \in found : TRUE IN
             erq' = [erq EXCEPT ![p] =
                       [r EXCEPT !.pc = "transact",
                                 !.beatmapsetId = nomination.beatmapset_id,
                                 !.gameMode = nomination.game_mode,
                                 !.prevState = nomination.metadata_state]]
    /\ UNCHANGED <<nominations, nextNominationId, nominators, assignees, excludedBeatmaps,
                   nrq, ntx, creators, etx, beatmapsets, logs, cache>>
    /\ UNCHANGED <<reviewVars, consentVars, cachedReviews, roundVars, sessionVars>>

\* an overwrite that is stored as sent
metadataOverwriteAsSent(state, value) == value

\* lines 589-595: the artist or title the UPDATE sets
metadataOverwrite(state, value) ==
    IF state = MetadataStateGood THEN NullText ELSE value

\* line 596: the beatmapset is refreshed with the force flag
forcesRefresh(state, prevState) ==
    state = MetadataStateGood /\ prevState = MetadataStateNeedsChange

\* UPDATE nominations SET metadata_state = ?, overwrite_artist = ?,
\* overwrite_title = ? WHERE id = ?: the rows as the UPDATE leaves them
UpdateMetadata(rows, r) ==
    {[n EXCEPT !.metadata_state = r.state,
               !.overwrite_artist = metadataOverwrite(r.state, r.artist),
               !.overwrite_title = metadataOverwrite(r.state, r.title)] :
        n \in NominationsOfId(rows, r.nominationId)}

\* the rows DELETE FROM beatmapset_creators WHERE beatmapset_id = ? AND
\* game_mode = ? removes
CreatorsOf(rows, beatmapsetId, gameMode) ==
    {c \in rows : c.beatmapset_id = beatmapsetId /\ c.game_mode = gameMode}

\* a DELETE that runs only with the INSERT
CreatorsDeletedWithList(rows, r) ==
    IF r.creators.given /\ Len(r.creators.names) > 0
        THEN CreatorsOf(rows, r.beatmapsetId, r.gameMode)
        ELSE {}

\* lines 625-628: the DELETE runs whatever req.body.creators is
CreatorsDeleted(rows, r) == CreatorsOf(rows, r.beatmapsetId, r.gameMode)

\* osu.createOrRefreshUser(creatorName, { byName: true, storeBanned: true }):
\* the id of the user of that name, 0 when the name is no user's
OsuUserByName(name) == IF name = "x" THEN 1 ELSE IF name = "y" THEN 3 ELSE 0

\* a loop that takes every name for a user's
ResolvedNamesAll(names) == names

\* the names the loop of lines 633-640 resolves: all of them, or the ones
\* before the first that is no user's
ResolvedNames(names) ==
    LET bad == {i \in DOMAIN names : OsuUserByName(names[i]) = 0} IN
    IF bad = {} THEN names
    ELSE SubSeq(names, 1, (CHOOSE i \in bad : \A j \in bad : i <= j) - 1)

\* INSERT INTO beatmapset_creators (beatmapset_id, creator_id, game_mode) VALUES ?
CreatorRows(r) ==
    {[beatmapset_id |-> r.beatmapsetId, creator_id |-> OsuUserByName(r.creators.names[i]),
      game_mode |-> r.gameMode] : i \in DOMAIN r.creators.names}

\* The callback of db.transact: for roles.metadata the UPDATE of the
\* nomination, after the forced refresh of the beatmapset when the state
\* goes from needs_change to good; the DELETE of the creators; for a
\* non-empty array of names the users resolved and the INSERT.  A name that
\* is no user's fails the callback: ROLLBACK and 500.  What the content
\* collaborator stores is not part of the transaction.
EditMetadataTransact(p) ==
    /\ erq[p].pc = "transact"
    /\ erq[p].op = "editMetadata"
    /\ LET r == erq[p]
           forced == UpdatesMetadata(r.actor) /\ forcesRefresh(r.state, r.prevState)
           inserts == r.creators.given /\ Len(r.creators.names) > 0
           resolved == IF inserts THEN ResolvedNames(r.creators.names) ELSE <<>>
           locks == (IF UpdatesMetadata(r.actor) THEN {LockNomination(r.nominationId)}
                                                ELSE {})
                       \cup {LockCreators(r.beatmapsetId, r.gameMode)}
       IN
       /\ locks \cap LocksOfOthers(p) = {}
       /\ \E osu \in IF forced THEN OsuBeatmapsetAnswers ELSE {NoBeatmapset} :
             StoreBeatmapset(osu, r.beatmapsetId)
       /\ users' = users \cup {OsuUserByName(resolved[i]) : i \in DOMAIN resolved}
       /\ IF inserts /\ resolved # r.creators.names
            THEN /\ RespondEdit(p, r, 500, "TypeError")
                 /\ UNCHANGED etx
            ELSE /\ etx' = [etx EXCEPT ![p] =
                              [NoEditTx EXCEPT
                                 !.putNominations =
                                     IF UpdatesMetadata(r.actor)
                                         THEN UpdateMetadata(nominations, r) ELSE {},
                                 !.delCreators = CreatorsDeleted(creators, r),
                                 !.putCreators = IF inserts THEN CreatorRows(r) ELSE {},
                                 !.locks = locks]]
                 /\ erq' = [erq EXCEPT ![p] =
                              [r EXCEPT !.pc = "commit", !.forced = forced]]
    /\ UNCHANGED <<nominations, nextNominationId, nominators, assignees, excludedBeatmaps,
                   nrq, ntx, creators, logs, cache, clock>>
    /\ UNCHANGED <<reviewVars, consents, consentBeatmapsets, crq, ctx, lastConsent,
                   cachedReviews, roundVars, sessionVars>>

\* ---------------------------------------------- POST /update-nomination-order

\* The guard and the request up to db.transact.
UpdateNominationOrder(p, D) ==
    /\ erq[p].pc = "idle"
    /\ nrq[p].pc = "idle"
    /\ clock < MaxReq
    /\ clock' = clock + 1
    /\ \E actor \in D.captainActors, orderMap \in D.orderMaps :
        LET r == [IdleEditReq EXCEPT
                    !.op = "updateNominationOrder", !.actor = actor,
                    !.orderMap = orderMap]
        IN
        IF ~isCaptain(actor)
            THEN RespondEdit(p, r, 403, "")
            ELSE erq' = [erq EXCEPT ![p] = [r EXCEPT !.pc = "transact"]]
    /\ UNCHANGED <<nominations, nextNominationId, nominators, assignees, excludedBeatmaps,
                   nrq, ntx, creators, etx, beatmapsets, logs, cache>>
    /\ UNCHANGED <<reviewVars, consentVars, cachedReviews, roundVars, sessionVars>>

\* an UPDATE for the lowest id of the map only
UpdateOrderOfFirst(rows, orderMap) ==
    {[n EXCEPT !.order = orderMap[n.id]] :
        n \in {x \in rows : x.id \in DOMAIN orderMap
                              /\ \A i \in DOMAIN orderMap : x.id <= i}}

\* UPDATE nominations SET `order` = ? WHERE id = ?, for every entry of
\* req.body: the rows as the UPDATEs leave them
UpdateOrder(rows, orderMap) ==
    {[n EXCEPT !.order = orderMap[n.id]] : n \in {x \in rows : x.id \in DOMAIN orderMap}}

\* the outcomes of the UPDATEs: one of them fails (TRUE) or none does.  An
\* UPDATE that sets a stored row to an order the column rejects fails; one
\* that names no row may fail or not.
OrderUpdateFails(rows, orderMap) ==
    IF \E n \in rows : n.id \in DOMAIN orderMap /\ orderMap[n.id] = BadOrder
        THEN {TRUE}
    ELSE IF \E i \in DOMAIN orderMap : orderMap[i] = BadOrder
        THEN {TRUE, FALSE}
    ELSE {FALSE}

\* The callback of db.transact: the UPDATEs of Promise.all, one per entry
\* of req.body.  One failing UPDATE rejects the callback: ROLLBACK and 500.
UpdateNominationOrderTransact(p) ==
    /\ erq[p].pc = "transact"
    /\ erq[p].op = "updateNominationOrder"
    /\ LET r == erq[p]
           locks == {LockNomination(i) : i \in DOMAIN r.orderMap}
       IN
       /\ locks \cap LocksOfOthers(p) = {}
       /\ \E fails \in OrderUpdateFails(nominations, r.orderMap) :
            IF fails
                THEN /\ RespondEdit(p, r, 500, "ER_TRUNCATED_WRONG_VALUE")
                     /\ UNCHANGED etx
                ELSE /\ etx' = [etx EXCEPT ![p] =
                                  [NoEditTx EXCEPT
                                     !.putNominations = UpdateOrder(nominations, r.orderMap),
                                     !.locks = locks]]
                     /\ erq' = [erq EXCEPT ![p] = [r EXCEPT !.pc = "commit"]]
    /\ UNCHANGED <<nominations, nextNominationId, nominators, assignees, excludedBeatmaps,
                   nrq, ntx, creators, beatmapsets, logs, cache, clock>>
    /\ UNCHANGED <<reviewVars, consentVars, cachedReviews, roundVars, sessionVars>>

\* ------------------------------------------ POST /update-nomination-assignees

\* isAssigneeType(req.body.type)
isAssigneeType(type) == type \in AssigneeTypes

\* roles[typeString]: roles.metadata for AssigneeType.metadata (0),
\* roles.moderator for AssigneeType.moderator (1)
rolesOfType(actor, type) ==
    IF type = 0 THEN rolesMetadata(actor) ELSE rolesModerator(actor)

\* a check that takes the role of either type
AssigneesForbiddenAnyType(actor, type) ==
    ~rolesNews(actor) /\ ~rolesMetadata(actor) /\ ~rolesModerator(actor)

\* !roles.news && !roles[typeString]
AssigneesForbidden(actor, type) == ~rolesNews(actor) /\ ~rolesOfType(actor, type)

\* The request up to db.transact: the type and role checks.
UpdateNominationAssignees(p, D) ==
    /\ erq[p].pc = "idle"
    /\ nrq[p].pc = "idle"
    /\ clock < MaxReq
    /\ clock' = clock + 1
    /\ \E actor \in D.assigneeActors, nominationId \in D.nominationIds,
          type \in D.assigneeTypes, assigneeIds \in D.assigneeIds :
        LET r == [IdleEditReq EXCEPT
                    !.op = "updateNominationAssignees", !.actor = actor,
                    !.nominationId = nominationId, !.type = type, !.ids = assigneeIds]
        IN
        IF ~isAssigneeType(type)
            THEN RespondEdit(p, r, 422, "Invalid assignee type")
        ELSE IF AssigneesForbidden(actor, type)
            THEN RespondEdit(p, r, 403,
                             IF type = 0 THEN "Must have metadata or news role"
                                         ELSE "Must have moderator or news role")
        ELSE erq' = [erq EXCEPT ![p] = [r EXCEPT !.pc = "transact"]]
    /\ UNCHANGED <<nominations, nextNominationId, nominators, assignees, excludedBeatmaps,
                   nrq, ntx, creators, etx, beatmapsets, logs, cache>>
    /\ UNCHANGED <<reviewVars, consentVars, cachedReviews, roundVars, sessionVars>>

\* the rows DELETE FROM nomination_assignees WHERE nomination_id = ? AND
\* type = ? removes
AssigneesOf(rows, nominationId, type) ==
    {a \in rows : a.nomination_id = nominationId /\ a.type = type}

\* INSERT INTO nomination_assignees (assignee_id, nomination_id, type) VALUES ?
AssigneeRows(nominationId, type, assigneeIds) ==
    {[nomination_id |-> nominationId, assignee_id |-> assigneeIds[i], type |-> type] :
        i \in DOMAIN assigneeIds}

\* The callback of db.transact: the DELETE of the assignees of (nomination,
\* type) and, for a non-empty array, the INSERT of the new ones.
UpdateNominationAssigneesTransact(p) ==
    /\ erq[p].pc = "transact"
    /\ erq[p].op = "updateNominationAssignees"
    /\ LET r == erq[p] IN
       /\ LockAssignees(r.nominationId, r.type) \notin LocksOfOthers(p)
       /\ ReferenceFree(p, r.nominationId, r.ids)
       /\ IF ReferenceMissing(r.nominationId, r.ids)
             THEN /\ RespondEdit(p, r, 500, "ER_NO_REFERENCED_ROW_2")
                  /\ UNCHANGED etx
             ELSE /\ etx' = [etx EXCEPT ![p] =
                               [NoEditTx EXCEPT
                                  !.delAssignees =
                                      AssigneesOf(assignees, r.nominationId, r.type),
                                  !.putAssignees =
                                      IF Len(r.ids) > 0
                                          THEN AssigneeRows(r.nominationId, r.type, r.ids)
                                          ELSE {},
                                  !.locks = {LockAssignees(r.nominationId, r.type)}
                                      \cup ReferenceLocks(r.nominationId, r.ids)]]
                  /\ erq' = [erq EXCEPT ![p] = [r EXCEPT !.pc = "commit"]]
    /\ UNCHANGED <<nominations, nextNominationId, nominators, assignees, excludedBeatmaps,
                   nrq, ntx, creators, beatmapsets, logs, cache, clock>>
    /\ UNCHANGED <<reviewVars, consentVars, cachedReviews, roundVars, sessionVars>>

\* ------------------------------------------- POST /update-excluded-beatmaps

\* The guard and the request up to db.transact.
UpdateExcludedBeatmaps(p, D) ==
    /\ erq[p].pc = "idle"
    /\ nrq[p].pc = "idle"
    /\ clock < MaxReq
    /\ clock' = clock + 1
    /\ \E actor \in D.captainActors, nominationId \in D.nominationIds,
          excludedBeatmapIds \in D.excludedBeatmapIds :
        LET r == [IdleEditReq EXCEPT
                    !.op = "updateExcludedBeatmaps", !.actor = actor,
                    !.nominationId = nominationId, !.ids = excludedBeatmapIds]
        IN
        IF ~isCaptain(actor)
            THEN RespondEdit(p, r, 403, "")
            ELSE erq' = [erq EXCEPT ![p] = [r EXCEPT !.pc = "transact"]]
    /\ UNCHANGED <<nominations, nextNominationId, nominators, assignees, excludedBeatmaps,
                   nrq, ntx, creators, etx, beatmapsets, logs, cache>>
    /\ UNCHANGED <<reviewVars, consentVars, cachedReviews, roundVars, sessionVars>>

\* INSERT INTO nomination_excluded_beatmaps (beatmap_id, nomination_id) VALUES ?
ExcludedBeatmapRows(nominationId, excludedBeatmapIds) ==
    {[nomination_id |-> nominationId, beatmap_id |-> excludedBeatmapIds[i]] :
        i \in DOMAIN excludedBeatmapIds}

\* The callback of db.transact: the DELETE of the nomination's excluded
\* beatmaps and, for a non-empty array, the INSERT of the new ones.
UpdateExcludedBeatmapsTransact(p) ==
    /\ erq[p].pc = "transact"
    /\ erq[p].op = "updateExcludedBeatmaps"
    /\ LET r == erq[p] IN
       /\ LockExcludedBeatmaps(r.nominationId) \notin LocksOfOthers(p)
       /\ ReferenceFree(p, r.nominationId, r.ids)
       /\ IF ReferenceMissing(r.nominationId, r.ids)
             THEN /\ RespondEdit(p, r, 500, "ER_NO_REFERENCED_ROW_2")
                  /\ UNCHANGED etx
             ELSE /\ etx' = [etx EXCEPT ![p] =
                               [NoEditTx EXCEPT
                                  !.delExcluded =
                                      RowsOfNomination(excludedBeatmaps, r.nominationId),
                                  !.putExcluded =
                                      IF Len(r.ids) > 0
                                          THEN ExcludedBeatmapRows(r.nominationId, r.ids)
                                          ELSE {},
                                  !.locks = {LockExcludedBeatmaps(r.nominationId)}
                                      \cup ReferenceLocks(r.nominationId, r.ids)]]
                  /\ erq' = [erq EXCEPT ![p] = [r EXCEPT !.pc = "commit"]]
    /\ UNCHANGED <<nominations, nextNominationId, nominators, assignees, excludedBeatmaps,
                   nrq, ntx, creators, beatmapsets, logs, cache, clock>>
    /\ UNCHANGED <<reviewVars, consentVars, cachedReviews, roundVars, sessionVars>>

\* ----------------------------------------------------------------- rounds

\* the game modes POST /add-round seeds, in its order
SeededGameModes == <<0, 1, 2, 3>>

IdleRoundReq ==
    [pc |-> "idle", op |-> "", actor |-> 0, roundId |-> 0, status |-> 0, error |-> "",
     result |-> [complete_rounds |-> <<>>, incomplete_rounds |-> <<>>]]

NoRoundTx == [rounds |-> {}, roundGameModes |-> {}]

RespondRound(p, r, status, error) ==
    rrq' = [rrq EXCEPT ![p] = [r EXCEPT !.pc = "idle", !.status = status,
                                        !.error = error]]

\* a threshold that ignores the setting
defaultVotingThresholdZero(s, gameMode) == 0

\* accessSetting(`defaultVotingThreshold.${gameMode}`) ?? 0: the settings
\* object s holds the thresholds of the game modes 0 .. Len(s) - 1
defaultVotingThreshold(s, gameMode) ==
    IF gameMode + 1 \in DOMAIN s THEN s[gameMode + 1] ELSE 0

\* the rows the loop over [0, 1, 2, 3] inserts into round_game_modes
SeededRows(insertId, s) ==
    {[round_id |-> insertId, game_mode |-> SeededGameModes[i],
      voting_threshold |-> defaultVotingThreshold(s, SeededGameModes[i]),
      nominations_locked |-> FALSE] : i \in DOMAIN SeededGameModes}

\* POST /add-round: the guard isNewsAuthor, up to db.transact.
AddRound(p, D) ==
    /\ rrq[p].pc = "idle" /\ nrq[p].pc = "idle" /\ erq[p].pc = "idle"
    /\ clock < MaxReq
    /\ clock' = clock + 1
    /\ \E actor \in D.roundActors :
        LET r == [IdleRoundReq EXCEPT !.op = "addRound", !.actor = actor] IN
        IF ~rolesNews(actor)
            THEN RespondRound(p, r, 403, "")
            ELSE rrq' = [rrq EXCEPT ![p] = [r EXCEPT !.pc = "transact"]]
    /\ UNCHANGED <<rounds, roundGameModes, nextRoundId, settings, rtx>>
    /\ UNCHANGED <<beatmapsets, logs, cache, reviewVars, consentVars, cachedReviews,
                   nominationVars, sessionVars>>

\* The callback of db.transact: the INSERT into rounds, the four INSERTs
\* into round_game_modes and res.json. An INSERT that fails rejects the
\* callback: db.transact rolls back, the id stays used, and nothing answers
\* the request, the handler neither awaiting nor catching the promise.
AddRoundTransact(p, D) ==
    /\ rrq[p].pc = "transact"
    /\ nextRoundId' = nextRoundId + 1
    /\ \E seeded \in D.seeded :
         IF seeded < Len(SeededGameModes)
            THEN /\ rrq' = [rrq EXCEPT ![p] =
                              [@ EXCEPT !.pc = "idle", !.roundId = nextRoundId,
                                        !.error = "unhandled rejection"]]
                 /\ UNCHANGED rtx
            ELSE /\ rtx' = [rtx EXCEPT ![p] =
                              [rounds |-> {[id |-> nextRoundId, name |-> "Unnamed round",
                                            done |-> FALSE]},
                               roundGameModes |-> SeededRows(nextRoundId, settings)]]
                 /\ rrq' = [rrq EXCEPT ![p] =
                              [@ EXCEPT !.pc = "commit", !.roundId = nextRoundId,
                                        !.status = 200]]
    /\ UNCHANGED <<rounds, roundGameModes, settings>>
    /\ UNCHANGED <<beatmapsets, logs, cache, clock, reviewVars, consentVars, cachedReviews,
                   nominationVars, sessionVars>>

\* COMMIT at the end of db.transact.
RoundCommit(p) ==
    /\ rrq[p].pc = "commit"
    /\ rounds' = rounds \cup rtx[p].rounds
    /\ roundGameModes' = roundGameModes \cup rtx[p].roundGameModes
    /\ rtx' = [rtx EXCEPT ![p] = NoRoundTx]
    /\ rrq' = [rrq EXCEPT ![p] = [@ EXCEPT !.pc = "idle"]]
    /\ UNCHANGED <<nextRoundId, settings>>
    /\ UNCHANGED <<beatmapsets, logs, cache, clock, reviewVars, consentVars, cachedReviews,
                   nominationVars, sessionVars>>

\* the keys getParams keeps
UpdateRoundKeys == {"name", "news_intro", "news_intro_preview", "news_outro",
                    "news_posted_at"}

\* every key of the object
getParamsAll(body, keys) ==
    {k \in {"name"} : body.name # ""} \cup {k \in {"done"} : body.done}

\* getParams(req.body.round, keys): the keys of the list the object has a
\* value for; a body holds name (unless empty) and done (if TRUE)
getParams(body, keys) ==
    {k \in keys : k = "name" /\ body.name # ""}
        \cup {k \in keys : k = "done" /\ body.done}

\* UPDATE rounds SET ? WHERE id = ?
UpdateRoundRows(rows, roundId, body, params) ==
    {[x EXCEPT !.name = IF x.id = roundId /\ "name" \in params THEN body.name ELSE @,
               !.done = IF x.id = roundId /\ "done" \in params THEN body.done ELSE @] :
        x \in rows}

\* POST /update-round. An object with none of the keys leaves SET without
\* an assignment, which the server rejects as a syntax error.
UpdateRound(p, D) ==
    /\ rrq[p].pc = "idle" /\ nrq[p].pc = "idle" /\ erq[p].pc = "idle"
    /\ clock < MaxReq
    /\ clock' = clock + 1
    /\ \E actor \in D.roundActors, roundId \in D.roundIdsAny, body \in D.roundParams :
        LET r == [IdleRoundReq EXCEPT !.op = "updateRound", !.actor = actor,
                                      !.roundId = roundId]
            params == getParams(body, UpdateRoundKeys)
        IN
        IF ~rolesNews(actor)
            THEN RespondRound(p, r, 403, "") /\ UNCHANGED rounds
        ELSE IF ~body.isRecord
            THEN RespondRound(p, r, 422, "Invalid round params") /\ UNCHANGED rounds
        ELSE IF params = {}
            THEN RespondRound(p, r, 500, "ER_PARSE_ERROR") /\ UNCHANGED rounds
        ELSE /\ rounds' = UpdateRoundRows(rounds, roundId, body, params)
             /\ RespondRound(p, r, 204, "")
    /\ UNCHANGED <<roundGameModes, nextRoundId, settings, rtx>>
    /\ UNCHANGED <<beatmapsets, logs, cache, reviewVars, consentVars, cachedReviews,
                   nominationVars, sessionVars>>

\* isGameMode
isGameMode(gameMode) == gameMode \in {0, 1, 2, 3}

\* POST /lock-nominations
LockNominations(p, D) ==
    /\ rrq[p].pc = "idle" /\ nrq[p].pc = "idle" /\ erq[p].pc = "idle"
    /\ clock < MaxReq
    /\ clock' = clock + 1
    /\ \E actor \in D.roundActors, roundId \in D.roundIdsAny,
          gameMode \in D.lockGameModes, lock \in BOOLEAN :
        LET r == [IdleRoundReq EXCEPT !.op = "lockNominations", !.actor = actor,
                                      !.roundId = roundId]
        IN
        IF ~isGameMode(gameMode)
            THEN RespondRound(p, r, 422, "Invalid game mode") /\ UNCHANGED roundGameModes
        ELSE IF ~rolesNews(actor) /\ ~rolesGameModes(actor, gameMode)
            THEN RespondRound(p, r, 403, "") /\ UNCHANGED roundGameModes
        ELSE /\ roundGameModes' =
                    {IF x.round_id = roundId /\ x.game_mode = gameMode
                        THEN [x EXCEPT !.nominations_locked = lock] ELSE x :
                     x \in roundGameModes}
             /\ RespondRound(p, r, 204, "")
    /\ UNCHANGED <<rounds, nextRoundId, settings, rtx>>
    /\ UNCHANGED <<beatmapsets, logs, cache, reviewVars, consentVars, cachedReviews,
                   nominationVars, sessionVars>>

\* PUT /settings: updateSettings(req.body), for the thresholds
PutSettings(p, D) ==
    /\ rrq[p].pc = "idle" /\ nrq[p].pc = "idle" /\ erq[p].pc = "idle"
    /\ clock < MaxReq
    /\ clock' = clock + 1
    /\ \E actor \in D.roundActors, body \in D.settingsBodies :
        LET r == [IdleRoundReq EXCEPT !.op = "putSettings", !.actor = actor] IN
        IF ~isCaptain(actor)
            THEN RespondRound(p, r, 403, "") /\ UNCHANGED settings
            ELSE settings' = body /\ RespondRound(p, r, 200, "")
    /\ UNCHANGED <<rounds, roundGameModes, nextRoundId, rtx>>
    /\ UNCHANGED <<beatmapsets, logs, cache, reviewVars, consentVars, cachedReviews,
                   nominationVars, sessionVars>>

\* a list left in the order of the query
ReverseNever(s) == s

\* Array.prototype.reverse
Reverse(s) == [i \in 1 .. Len(s) |-> s[Len(s) + 1 - i]]

\* The query of GET /rounds, ORDER BY rounds.id ASC: each round with
\* IFNULL(count, 0) of its nominations; then the two filters.
ListRounds(rds, noms) ==
    LET row(id) ==
            LET x == CHOOSE y \in rds : y.id = id IN
            [id |-> x.id, name |-> x.name, done |-> x.done,
             nomination_count |-> Cardinality({n \in noms : n.round_id = id})]
        ids == Ascending({x.id : x \in rds})
        rows == [i \in DOMAIN ids |-> row(ids[i])]
    IN [complete_rounds |-> Reverse(SelectSeq(rows, LAMBDA x : x.done)),
        incomplete_rounds |-> SelectSeq(rows, LAMBDA x : ~x.done)]

\* GET /rounds
GetRounds(p) ==
    /\ rrq[p].pc = "idle" /\ nrq[p].pc = "idle" /\ erq[p].pc = "idle"
    /\ clock < MaxReq
    /\ clock' = clock + 1
    /\ rrq' = [rrq EXCEPT ![p] =
                 [IdleRoundReq EXCEPT !.op = "listRounds", !.status = 200,
                                      !.result = ListRounds(rounds, nominations)]]
    /\ UNCHANGED <<rounds, roundGameModes, nextRoundId, settings, rtx>>
    /\ UNCHANGED <<beatmapsets, logs, cache, reviewVars, consentVars, cachedReviews,
                   nominationVars, sessionVars>>

\* ----------------------------------------------------- session middleware

IdleSessionReq == [pc |-> "idle", userId |-> 0, waited |-> FALSE, error |-> "", status |-> 0]

\* the steps inside the callback of sessionLock.acquire
SessionSection == {"reload", "refresh", "save", "destroy"}

\* a lock that lets every callback run at once
LockFreeAlways(queue) == TRUE

\* AsyncLock: a callback runs at once when no other holds or awaits the key
LockFree(queue) == queue = <<>>

\* a lock that is kept when the callback settles
ReleaseNever(queue, p) == queue

\* AsyncLock: the key is given up when the promise of the callback settles
Release(queue, p) == SelectSeq(queue, LAMBDA q : q # p)

\* The request reaches the middleware: next() for a session without user
\* id, else sessionLock.acquire(userId), which runs the callback or queues it.
SessionRequest(p, D) ==
    /\ srq[p].pc \in {"idle", "done", "router"}
    /\ clock < MaxReq
    /\ clock' = clock + 1
    /\ \E userId \in D.sessionUsers :
         IF userId = 0
            THEN /\ srq' = [srq EXCEPT ![p] = [IdleSessionReq EXCEPT !.pc = "router"]]
                 /\ UNCHANGED sessionLock
            ELSE /\ sessionLock' = [sessionLock EXCEPT ![userId] = Append(@, p)]
                 /\ srq' = [srq EXCEPT ![p] =
                              [IdleSessionReq EXCEPT
                                 !.userId = userId,
                                 !.pc = IF LockFree(sessionLock[userId])
                                           THEN "reload" ELSE "waiting",
                                 !.waited = ~LockFree(sessionLock[userId])]]
    /\ UNCHANGED <<sessions, beatmapsets, logs, cache, reviewVars, consentVars,
                   cachedReviews, nominationVars, roundVars>>

\* AsyncLock runs the callback queued first once the key is given up.
SessionAcquire(p) ==
    /\ srq[p].pc = "waiting"
    /\ Head(sessionLock[srq[p].userId]) = p
    /\ srq' = [srq EXCEPT ![p] = [@ EXCEPT !.pc = "reload"]]
    /\ UNCHANGED <<sessionLock, sessions, beatmapsets, logs, cache, clock, reviewVars,
                   consentVars, cachedReviews, nominationVars, roundVars>>

\* await reloadSession(request.session): the store has the session, or the
\* catch answers 401 and the callback returns true.
ReloadSession(p) ==
    /\ srq[p].pc = "reload"
    /\ IF srq[p].userId \in sessions
         THEN /\ srq' = [srq EXCEPT ![p] = [@ EXCEPT !.pc = "refresh"]]
              /\ UNCHANGED sessionLock
         ELSE /\ srq' = [srq EXCEPT ![p] = [@ EXCEPT !.pc = "done", !.status = 401]]
              /\ sessionLock' = [sessionLock EXCEPT ![srq[p].userId] = Release(@, p)]
    /\ UNCHANGED <<sessions, beatmapsets, logs, cache, clock, reviewVars, consentVars,
                   cachedReviews, nominationVars, roundVars>>

\* isTokenInfo, new Osu and await tryRefreshToken(): without a new token
\* the callback returns false; a new token goes to saveSession; an error
\* goes to the catch.
RefreshToken(p, D) ==
    /\ srq[p].pc = "refresh"
    /\ \E outcome \in D.refreshOutcomes :
         IF outcome = "null"
            THEN /\ srq' = [srq EXCEPT ![p] = [@ EXCEPT !.pc = "lookup"]]
                 /\ sessionLock' = [sessionLock EXCEPT ![srq[p].userId] = Release(@, p)]
         ELSE IF outcome = "tokenInfo"
            THEN /\ srq' = [srq EXCEPT ![p] = [@ EXCEPT !.pc = "save"]]
                 /\ UNCHANGED sessionLock
         ELSE /\ srq' = [srq EXCEPT ![p] = [@ EXCEPT !.pc = "destroy", !.error = outcome]]
              /\ UNCHANGED sessionLock
    /\ UNCHANGED <<sessions, beatmapsets, logs, cache, clock, reviewVars, consentVars,
                   cachedReviews, nominationVars, roundVars>>

\* await saveSession(request.session): the store takes the session, or its
\* error goes to the catch.
SaveSession(p) ==
    /\ srq[p].pc = "save"
    /\ \E saved \in BOOLEAN :
         IF saved
            THEN /\ sessions' = sessions \cup {srq[p].userId}
                 /\ srq' = [srq EXCEPT ![p] = [@ EXCEPT !.pc = "lookup"]]
                 /\ sessionLock' = [sessionLock EXCEPT ![srq[p].userId] = Release(@, p)]
            ELSE /\ srq' = [srq EXCEPT ![p] = [@ EXCEPT !.pc = "destroy", !.error = "error"]]
                 /\ UNCHANGED <<sessions, sessionLock>>
    /\ UNCHANGED <<beatmapsets, logs, cache, clock, reviewVars, consentVars,
                   cachedReviews, nominationVars, roundVars>>

\* The catch: await destroySession(request.session), then 401 for an error
\* of status 401 and the error thrown on for any other; a destroy that
\* fails throws as well.
DestroySession(p) ==
    /\ srq[p].pc = "destroy"
    /\ \E destroyed \in BOOLEAN :
         /\ sessions' = IF destroyed THEN sessions \ {srq[p].userId} ELSE sessions
         /\ srq' = [srq EXCEPT ![p] =
                      [@ EXCEPT !.pc = "done",
                                !.error = IF destroyed THEN @ ELSE "destroy",
                                !.status = IF destroyed /\ srq[p].error = "401"
                                              THEN 401 ELSE 500]]
    /\ sessionLock' = [sessionLock EXCEPT ![srq[p].userId] = Release(@, p)]
    /\ UNCHANGED <<beatmapsets, logs, cache, clock, reviewVars, consentVars,
                   cachedReviews, nominationVars, roundVars>>

\* After the lock: SELECT * FROM users WHERE id = ?, 'Missing user' or next().
LookupUser(p) ==
    /\ srq[p].pc = "lookup"
    /\ srq' = [srq EXCEPT ![p] =
                 IF srq[p].userId \in users
                    THEN [@ EXCEPT !.pc = "router"]
                    ELSE [@ EXCEPT !.pc = "done", !.status = 500,
                                   !.error = "Missing user"]]
    /\ UNCHANGED <<sessionLock, sessions, beatmapsets, logs, cache, clock, reviewVars,
                   consentVars, cachedReviews, nominationVars, roundVars>>

\* ------------------------------------------------------------- cache reader

\* the reviews a list of game mode g shows
ReviewsOfGameMode(rows, g) == {x \in rows : x.game_mode = g}

\* A request that lists the reviews of game mode g and finds no entry
\* submissions:g:reviews reads the committed rows and stores them under the
\* key; one that finds the entry answers from it.
ReadReviews(g) ==
    /\ CacheKeyReviews(g) \notin cache
    /\ cache' = cache \cup {CacheKeyReviews(g)}
    /\ cachedReviews' = [cachedReviews EXCEPT ![g] = ReviewsOfGameMode(reviews, g)]
    /\ UNCHANGED <<beatmapsets, logs, clock, reviewVars, consentVars, nominationVars,
                   roundVars, sessionVars>>

\* ------------------------------------------------------------------ system

\* Three rounds, two of them done (by an editor outside this module), each
\* with its row per game mode.
InitRounds ==
    {[id |-> 1, name |-> "a", done |-> FALSE], [id |-> 2, name |-> "b", done |-> TRUE],
     [id |-> 3, name |-> "c", done |-> TRUE]}

InitRoundGameModes ==
    {[round_id |-> x.id, game_mode |-> g, voting_threshold |-> 0,
      nominations_locked |-> FALSE] : x \in InitRounds, g \in {0, 1, 2, 3}}

\* Rows that exist before the first request: two reviews made when the
\* scores 2 and -2 could still be chosen, and submissions (made by a router
\* outside this module), at most one open submission per
\* (beatmapset, game mode, submitter).
InitReviews ==
    {[id |-> 1, beatmapset_id |-> 1, game_mode |-> 0, reviewer_id |-> 2,
      score |-> 2, reason |-> "a", reviewed_at |-> 0],
     [id |-> 2, beatmapset_id |-> 1, game_mode |-> 1, reviewer_id |-> 1,
      score |-> -2, reason |-> "a", reviewed_at |-> 0]}

InitSubmissions ==
    {[id |-> 1, beatmapset_id |-> 1, game_mode |-> 0, submitter_id |-> 2, reason |-> NullReason],
     [id |-> 2, beatmapset_id |-> 1, game_mode |-> 0, submitter_id |-> 2, reason |-> "a"],
     [id |-> 3, beatmapset_id |-> 1, game_mode |-> 0, submitter_id |-> 1, reason |-> NullReason],
     [id |-> 4, beatmapset_id |-> 1, game_mode |-> 1, submitter_id |-> 2, reason |-> NullReason],
     [id |-> 5, beatmapset_id |-> 2, game_mode |-> 0, submitter_id |-> 2, reason |-> NullReason]}

\* user 1 has given consent, and refused it for beatmapset 1
InitConsents ==
    {[user_id |-> 1, consent |-> "yes", consent_reason |-> "a",
      updated_at |-> 0, updater_id |-> 1]}

InitConsentBeatmapsets ==
    {[user_id |-> 1, beatmapset_id |-> 1, consent |-> FALSE, consent_reason |-> "a"]}

\* two nominations made back-to-back in round 1, game mode 0, by user 1,
\* each with an assignee and an excluded beatmap
\* nomination 1 is as created; nomination 2 has a description by captain 1
\* and a metadata check that asked for a change of the artist
InitNominations ==
    {[id |-> 1, beatmapset_id |-> 2, game_mode |-> 0, order |-> 0, parent_id |-> 0,
      round_id |-> 1] @@ NominationDefaults,
     [id |-> 2, beatmapset_id |-> 3, game_mode |-> 0, order |-> 1, parent_id |-> 0,
      round_id |-> 1, description |-> "a", description_author_id |-> 1,
      description_state |-> DescriptionStateNotReviewed,
      metadata_state |-> MetadataStateNeedsChange,
      overwrite_artist |-> "x", overwrite_title |-> NullText]}

InitNominators ==
    {[nomination_id |-> 1, nominator_id |-> 1], [nomination_id |-> 2, nominator_id |-> 1]}

InitAssignees ==
    {[nomination_id |-> 1, assignee_id |-> 2, type |-> 0],
     [nomination_id |-> 2, assignee_id |-> 2, type |-> 0]}

InitExcludedBeatmaps ==
    {[nomination_id |-> 1, beatmap_id |-> 7], [nomination_id |-> 2, beatmap_id |-> 8]}

\* beatmapset_creators: user 1 is credited for beatmapset 3 in game mode 0
InitCreators == {[beatmapset_id |-> 3, creator_id |-> 1, game_mode |-> 0]}

Init ==
    /\ reviews = InitReviews
    /\ nextReviewId = 3
    /\ submissions = InitSubmissions
    /\ beatmapsets = Beatmapsets
    /\ logs = <<>>
    /\ cache = {CacheKeyReviews(g) : g \in GameModes} \cup CacheKeysConsent
    /\ clock = 0
    /\ rq = [p \in Procs |-> IdleReq]
    /\ tx = [p \in Procs |-> NoTx]
    /\ users = Users
    /\ consents = InitConsents
    /\ consentBeatmapsets = InitConsentBeatmapsets
    /\ crq = [p \in Procs |-> IdleConsentReq]
    /\ ctx = [p \in Procs |-> NoConsentTx]
    /\ lastConsent = RequestOf(IdleConsentReq)
    /\ cachedReviews = [g \in GameModes |-> ReviewsOfGameMode(InitReviews, g)]
    /\ nominations = InitNominations
    /\ nextNominationId = 3
    /\ nominators = InitNominators
    /\ assignees = InitAssignees
    /\ excludedBeatmaps = InitExcludedBeatmaps
    /\ nrq = [p \in Procs |-> IdleNominationReq]
    /\ ntx = [p \in Procs |-> NoNominationTx]
    /\ creators = InitCreators
    /\ erq = [p \in Procs |-> IdleEditReq]
    /\ etx = [p \in Procs |-> NoEditTx]
    /\ rounds = InitRounds
    /\ roundGameModes = InitRoundGameModes
    /\ nextRoundId = 4
    /\ settings = <<3>>
    /\ rrq = [p \in Procs |-> IdleRoundReq]
    /\ rtx = [p \in Procs |-> NoRoundTx]
    /\ sessionLock = [u \in {1, 2, 3} |-> <<>>]
    /\ sessions = {1, 2, 3}
    /\ srq = [p \in Procs |-> IdleSessionReq]

ReviewStep(p, D) ==
    \/ PostReview(p, D)
    \/ PostReviewTransact(p)
    \/ DeleteReview(p, D)
    \/ DeleteReviewTransact(p)
    \/ PostReviewMany(p, D)
    \/ PostReviewManyTransact(p)
    \/ TransactCommit(p)

\* requests served concurrently
ReviewNext == \E p \in Procs : ReviewStep(p, RacingInputs)

ReviewSpec == Init /\ [][ReviewNext]_vars

\* requests served one after the other
ReviewSeqNext == ReviewStep("h1", AllInputs)

ReviewSeqSpec == Init /\ [][ReviewSeqNext]_vars

\* one request at a time, and the readers of the cached lists
ReviewCacheNext ==
    \/ ReviewStep("h1", RacingInputs)
    \/ \E g \in GameModes : ReadReviews(g)

ReviewCacheSpec == Init /\ [][ReviewCacheNext]_vars

ConsentStep(p, D) ==
    \/ PostMapperConsent(p, D)
    \/ PostMapperConsentTransact(p)
    \/ PostMapperConsentCommit(p)
    \/ PostMapperConsentRespond(p)

\* requests served concurrently
ConsentNext == \E p \in Procs : ConsentStep(p, RacingInputs)

ConsentSpec == Init /\ [][ConsentNext]_vars

\* requests served one after the other
ConsentSeqNext == ConsentStep("h1", AllInputs)

ConsentSeqSpec == Init /\ [][ConsentSeqNext]_vars

NominationStep(p, D) ==
    \/ PostNominationSubmit(p, D)
    \/ PostNominationSubmitTransact(p)
    \/ DeleteNomination(p, D)
    \/ DeleteNominationTransact(p)
    \/ NominationCommit(p)

\* requests served concurrently
NominationNext == \E p \in Procs : NominationStep(p, RacingInputs)

NominationSpec == Init /\ [][NominationNext]_vars

\* requests served one after the other
NominationSeqNext == NominationStep("h1", AllInputs)

NominationSeqSpec == Init /\ [][NominationSeqNext]_vars

\* DELETE /nomination and POST /update-nominators
NominatorsStep(p, D) ==
    \/ DeleteNomination(p, D)
    \/ DeleteNominationTransact(p)
    \/ NominationCommit(p)
    \/ UpdateNominators(p, D)
    \/ UpdateNominatorsTransact(p)
    \/ EditCommit(p)

\* the two served concurrently
NominatorsNext == \E p \in Procs : NominatorsStep(p, AllInputs)

NominatorsSpec == Init /\ [][NominatorsNext]_vars

\* POST /nomination-edit-description
DescriptionStep(p, D) ==
    \/ EditDescription(p, D)
    \/ EditDescriptionUpdate(p)

\* the edits that can race for nomination 2: by the captain 1, the news
\* author 5 and the captain and news author 8
DescriptionRacingInputs ==
    [descriptionActors |-> {1, 5, 8}, nominationIds |-> {2},
     descriptions |-> AllInputs.descriptions]

\* requests served concurrently
DescriptionNext == \E p \in Procs : DescriptionStep(p, DescriptionRacingInputs)

DescriptionSpec == Init /\ [][DescriptionNext]_vars

\* requests served one after the other
DescriptionSeqNext == DescriptionStep("h1", AllInputs)

DescriptionSeqSpec == Init /\ [][DescriptionSeqNext]_vars

\* POST /nomination-edit-metadata
MetadataStep(p, D) ==
    \/ EditMetadata(p, D)
    \/ EditMetadataTransact(p)
    \/ EditCommit(p)

\* the edits that can race for nomination 2
MetadataRacingInputs ==
    [metadataActors |-> AllInputs.metadataActors, nominationIds |-> {2},
     metadataStates |-> {"needs_change", "good"}, artists |-> AllInputs.artists,
     titles |-> {"<NULL>"},
     creatorArrays |-> {[given |-> FALSE, names |-> <<>>],
                        [given |-> TRUE, names |-> <<"y", "x">>]}]

\* requests served concurrently
MetadataNext == \E p \in Procs : MetadataStep(p, MetadataRacingInputs)

MetadataSpec == Init /\ [][MetadataNext]_vars

\* requests served one after the other
MetadataSeqNext == MetadataStep("h1", AllInputs)

MetadataSeqSpec == Init /\ [][MetadataSeqNext]_vars

\* POST /update-nomination-order
OrderStep(p, D) ==
    \/ UpdateNominationOrder(p, D)
    \/ UpdateNominationOrderTransact(p)
    \/ EditCommit(p)

\* requests served concurrently
OrderNext == \E p \in Procs : OrderStep(p, AllInputs)

OrderSpec == Init /\ [][OrderNext]_vars

\* POST /update-nomination-assignees
AssigneesStep(p, D) ==
    \/ UpdateNominationAssignees(p, D)
    \/ UpdateNominationAssigneesTransact(p)
    \/ EditCommit(p)

\* requests served concurrently
AssigneesNext == \E p \in Procs : AssigneesStep(p, AllInputs)

AssigneesSpec == Init /\ [][AssigneesNext]_vars

\* POST /update-excluded-beatmaps
ExcludedStep(p, D) ==
    \/ UpdateExcludedBeatmaps(p, D)
    \/ UpdateExcludedBeatmapsTransact(p)
    \/ EditCommit(p)

\* POST /nomination-submit, DELETE /nomination and the three handlers that
\* replace the rows of a nomination, served concurrently: the captain 1
\* submits and deletes; the captain 8 and the news author 5 replace; 3 is the
\* id of no nomination until one is submitted
ReferenceNext ==
    \E p \in Procs :
        LET D == [nominationActors |-> {1}, nominationIds |-> {1, 3},
                  roundIds |-> {1}, gameModes |-> {0}, nominationBeatmapsets |-> {1},
                  parentIds |-> {0},
                  captainActors |-> {8}, nominatorIds |-> {<<>>, <<2>>},
                  assigneeActors |-> {5}, assigneeTypes |-> {0},
                  assigneeIds |-> {<<>>, <<3, 1>>},
                  excludedBeatmapIds |-> {<<>>, <<7, 9>>}]
        IN  \/ NominationStep(p, D)
            \/ NominatorsStep(p, D)
            \/ AssigneesStep(p, D)
            \/ ExcludedStep(p, D)

ReferenceSpec == Init /\ [][ReferenceNext]_vars

\* every handler, the requests served concurrently
\* A stored beatmapset disappears: the deletion by something other than these
\* handlers that the checks `beatmapset == null` inside the transactions
\* guard against.
BeatmapsetVanishes ==
    /\ \E id \in beatmapsets \cap ConsentBeatmapsetIds : beatmapsets' = beatmapsets \ {id}
    /\ UNCHANGED <<logs, cache, clock, reviewVars, consentVars, cachedReviews,
                   nominationVars, roundVars, sessionVars>>

\* consent requests of the captain 1 for the own consents that keep, drop or
\* replace the entry of beatmapset 1, and metadata edits of nomination 2,
\* some with a creator name that is no user's
RollbackNext ==
    \/ \E p \in Procs :
          \/ ConsentStep(p, [RacingInputs EXCEPT
                                !.consentActors = {1}, !.consentUsers = {1},
                                !.consentValues = {"yes"},
                                !.consentArrays =
                                   {<<>>,
                                    <<[beatmapset_id |-> 1, consent |-> TRUE,
                                       consent_reason |-> "a"]>>,
                                    <<[beatmapset_id |-> 3, consent |-> TRUE,
                                       consent_reason |-> "a"]>>}])
          \/ MetadataStep(p, [MetadataRacingInputs EXCEPT
                                 !.creatorArrays = {[given |-> FALSE, names |-> <<>>],
                                                    [given |-> TRUE, names |-> <<"x">>],
                                                    [given |-> TRUE, names |-> <<"y", "?">>]}])
    \/ BeatmapsetVanishes

RollbackSpec == Init /\ [][RollbackNext]_vars

\* what the middleware does once a request is in it
SessionRun(p, D) ==
    \/ SessionAcquire(p)
    \/ ReloadSession(p)
    \/ RefreshToken(p, D)
    \/ SaveSession(p)
    \/ DestroySession(p)
    \/ LookupUser(p)

SessionStep(p, D) == SessionRequest(p, D) \/ SessionRun(p, D)

SessionNext == \E p \in Procs : SessionStep(p, AllInputs)

SessionSpec == Init /\ [][SessionNext]_vars

\* The session store, the token endpoint and the event loop answer: a
\* callback that can run does run.
SessionFairSpec ==
    SessionSpec /\ \A p \in Procs : WF_vars(SessionRun(p, AllInputs))

\* the two handlers that answer inside the callback of db.transact
ResponseNext ==
    \E p \in Procs :
        \/ ReviewStep(p, RacingInputs)
        \/ AddRound(p, AllInputs) \/ AddRoundTransact(p, AllInputs) \/ RoundCommit(p)

ResponseSpec == Init /\ [][ResponseNext]_vars

RoundStep(p, D) ==
    \/ AddRound(p, D)
    \/ AddRoundTransact(p, D)
    \/ RoundCommit(p)
    \/ UpdateRound(p, D)
    \/ LockNominations(p, D)
    \/ PutSettings(p, D)
    \/ GetRounds(p)

\* the round handlers next to the submission and the deletion of nominations
\* by the captain 1
RoundNext ==
    \E p \in Procs :
        \/ RoundStep(p, AllInputs)
        \/ NominationStep(p, [nominationActors |-> {1}, roundIds |-> {1},
                              gameModes |-> {0}, nominationBeatmapsets |-> {1, 2},
                              parentIds |-> {0}, nominationIds |-> {1}])

RoundSpec == Init /\ [][RoundNext]_vars

Next ==
    \/ \E p \in Procs :
          \/ RoundStep(p, AllInputs)
          \/ SessionStep(p, AllInputs)
          \/ ReviewStep(p, AllInputs)
          \/ ConsentStep(p, AllInputs)
          \/ NominationStep(p, AllInputs)
          \/ NominatorsStep(p, AllInputs)
          \/ DescriptionStep(p, AllInputs)
          \/ MetadataStep(p, AllInputs)
          \/ OrderStep(p, AllInputs)
          \/ AssigneesStep(p, AllInputs)
          \/ ExcludedStep(p, AllInputs)
    \/ \E g \in GameModes : ReadReviews(g)

Spec == Init /\ [][Next]_vars

\* ------------------------------------------------------------- properties

\* the tables, the audit log and the pending transactions
stored == <<reviews, nextReviewId, submissions, logs, tx>>

\* handler p answers in this step
Answers(p) == rq[p].pc # "idle" \/ rq[p] # rq'[p]

\* handler p answers a request of operation op with status in this step,
\* before any transaction
Rejects(p, op, status) ==
    /\ rq[p].pc = "idle"
    /\ rq'[p] # rq[p]
    /\ rq'[p].pc = "idle"
    /\ rq'[p].op = op
    /\ rq'[p].status = status

\* handler p's transaction commits in this step
Commits(p, op) == rq[p].pc = "commit" /\ rq[p].op = op /\ rq'[p].pc = "idle"

\* handler p's request passes its checks in this step
Passes(p, op) == rq[p].pc = "idle" /\ rq'[p].pc = "transact" /\ rq'[p].op = op

CountLogs(log, type) == Cardinality({i \in DOMAIN log : log[i].type = type})

\* C1: a request of score -2 or 2 passes the checks of POST /review only if
\* the reviewer's stored review of that beatmapset and game mode holds that
\* score, a request answered 422 changes no row and no log, and no step gives
\* a review the score -2 or 2 that did not hold it before.
C1_DeprecatedScoreKept ==
    [][/\ \A p \in Procs :
            /\ (Passes(p, "review") /\ rq'[p].score \in {-2, 2})
                => \E x \in reviews :
                      /\ x.beatmapset_id = rq'[p].beatmapsetId
                      /\ x.reviewer_id = rq'[p].actor
                      /\ x.game_mode = rq'[p].gameModes[1]
                      /\ x.score = rq'[p].score
            /\ Rejects(p, "review", 422) => UNCHANGED <<stored, cache>>
       /\ \A y \in reviews' :
            y.score \in {-2, 2} => \E x \in reviews : x.id = y.id /\ x.score = y.score
      ]_vars

\* a request of score 2 is accepted for the review that holds 2 already
C1_Witness ==
    \E p \in Procs :
        /\ rq[p].op = "review" /\ rq[p].pc = "commit" /\ rq[p].score = 2
        /\ \E w \in tx[p].put : w.score = 2

\* C2: a request of score -4 or 0 by an actor who is no captain of the game
\* mode is answered 403 and changes no row, no log and no cache entry; such a
\* request never reaches the transaction.
C2_CaptainScoreForbidden ==
    [][\A p \in Procs :
         /\ Rejects(p, "review", 403) => UNCHANGED <<stored, cache, beatmapsets>>
         /\ (Passes(p, "review") /\ rq'[p].score \in {-4, 0})
              => hasRoleCaptain(rq'[p].actor, rq'[p].gameModes[1])
      ]_vars

C2_Witness ==
    \E p \in Procs :
        /\ rq[p].op = "review" /\ rq[p].status = 403 /\ rq[p].score \in {-4, 0}
        /\ reviews = InitReviews /\ logs = <<>>

\* C3: whatever requests run concurrently, no two review rows share
\* (beatmapset_id, reviewer_id, game_mode).
C3_OneReviewPerKey ==
    \A x, y \in reviews : ReviewKey(x) = ReviewKey(y) => x = y

\* two requests both found no review of the key; one inserted it and the
\* other's INSERT failed
C3_Witness ==
    \E p, q \in Procs :
        /\ p # q
        /\ rq[p].op = "review" /\ rq[p].status = 500 /\ rq[p].error = "ER_DUP_ENTRY"
        /\ rq[q].op = "review" /\ rq[q].status = 200 /\ rq[q].pc = "idle"

\* C4: when POST /review updates a stored review, the transaction logs one
\* reviewUpdated record if the requested score or reason differs from the
\* stored one and none otherwise; a request equal to the stored score and
\* reason is answered 200 and changes of the row only reviewed_at.
C4_UpdateLoggedIffChanged ==
    [][\A p \in Procs :
         (Commits(p, "review") /\ rq[p].existing.found)
           => \E old \in reviews :
                /\ old.id = rq[p].existing.id
                /\ CountLogs(logs', "reviewUpdated") - CountLogs(logs, "reviewUpdated")
                     = IF old.score # rq[p].score \/ old.reason # rq[p].reason
                         THEN 1 ELSE 0
                /\ (old.score = rq[p].score /\ old.reason = rq[p].reason)
                     => /\ rq'[p].status = 200
                        /\ \E new \in reviews' :
                             /\ new = [old EXCEPT !.reviewed_at = new.reviewed_at]
                             /\ reviews' = (reviews \ {old}) \cup {new}
      ]_vars

\* the stored score and reason are submitted again: reviewed_at changes and
\* nothing is logged
C4_Witness ==
    \E p \in Procs :
        /\ rq[p].op = "review" /\ rq[p].pc = "commit" /\ rq[p].existing.found
        /\ \E old \in reviews, new \in tx[p].put :
             /\ old.id = new.id
             /\ old.score = new.score /\ old.reason = new.reason
             /\ old.reviewed_at # new.reviewed_at
        /\ CountLogs(tx[p].logs, "reviewUpdated") = 0

C6_IneligibleBeatmapsetRejected ==
    [][\A p \in Procs :
         /\ Passes(p, "review")
              => /\ rq'[p].beatmapset.found
                 /\ rq'[p].beatmapset.ranked_status <= RankedStatusPending
                 /\ rq'[p].gameModes[1] \in rq'[p].beatmapset.game_modes
         /\ Rejects(p, "review", 422) => UNCHANGED stored
      ]_vars

C6_Witness ==
    \E p \in Procs :
        /\ rq[p].op = "review" /\ rq[p].status = 422
        /\ rq[p].error = "Beatmapset is already Ranked/Loved/Qualified"
        /\ reviews = InitReviews /\ submissions = InitSubmissions /\ logs = <<>>

\* C7: a POST /review-many reaches the transaction only if the beatmapset has
\* beatmaps in every requested game mode, and its 422 answer changes nothing;
\* the callback of the transaction changes no visible row; the commit makes
\* the reviews of all the requested game modes hold the requested score and
\* reason in one step; a failed transaction leaves the rows as they were.
C7_ReviewManyAllOrNothing ==
    [][\A p \in Procs :
         /\ Passes(p, "reviewMany")
              => Range(rq'[p].gameModes) \subseteq rq'[p].beatmapset.game_modes
         /\ Rejects(p, "reviewMany", 422) => UNCHANGED stored
         /\ (rq[p].op = "reviewMany" /\ rq[p].pc = "transact" /\ rq'[p] # rq[p])
              => /\ UNCHANGED <<reviews, submissions, logs>>
                 /\ rq'[p].status = 500 => tx'[p] = NoTx
         /\ Commits(p, "reviewMany")
              => \A g \in Range(rq[p].gameModes) :
                   \E x \in reviews' :
                     /\ x.beatmapset_id = rq[p].beatmapsetId
                     /\ x.reviewer_id = rq[p].actor
                     /\ x.game_mode = g
                     /\ x.score = rq[p].score
                     /\ x.reason = rq[p].reason
      ]_vars

\* the transaction of a request for two game modes holds two rows not yet
\* visible
C7_Witness ==
    \E p \in Procs :
        /\ rq[p].op = "reviewMany" /\ rq[p].pc = "commit"
        /\ Cardinality(Range(rq[p].gameModes)) = 2
        /\ Cardinality(tx[p].put) = 2
        /\ tx[p].put \cap reviews = {}

\* C8: DELETE /review reaches the transaction only for a stored review whose
\* reviewer is the actor; its 404 and 403 answers change nothing; its commit
\* removes that review and no other and logs one reviewDeleted record.
C8_DeleteOwnReviewOnly ==
    [][\A p \in Procs :
         /\ Passes(p, "deleteReview")
              => \E x \in reviews :
                   x.id = rq'[p].existing.id /\ x.reviewer_id = rq'[p].actor
         /\ (Rejects(p, "deleteReview", 404) \/ Rejects(p, "deleteReview", 403))
              => UNCHANGED <<stored, cache>>
         /\ Commits(p, "deleteReview")
              => /\ \E x \in reviews :
                      /\ x.id = rq[p].existing.id
                      /\ x.reviewer_id = rq[p].actor
                      /\ reviews' = reviews \ {x}
                 /\ Len(logs') = Len(logs) + 1
                 /\ logs'[Len(logs')].type = "reviewDeleted"
                 /\ logs'[Len(logs')].review.id = rq[p].existing.id
                 /\ rq'[p].status = 204
      ]_vars

C8_Witness ==
    /\ rq["h1"].op = "deleteReview" /\ rq["h1"].status = 204
    /\ CountLogs(logs, "reviewDeleted") = 1
    /\ Cardinality(reviews) = 1

\* handler p answers a POST /mapper-consent request with status in this step,
\* before any transaction
RejectsConsent(p, status) ==
    /\ crq[p].pc = "idle"
    /\ crq'[p] # crq[p]
    /\ crq'[p].pc = "idle"
    /\ crq'[p].status = status

\* handler p's POST /mapper-consent request passes its checks in this step
PassesConsent(p) == crq[p].pc = "idle" /\ crq'[p].pc = "transact"

\* handler p's POST /mapper-consent transaction commits in this step
CommitsConsent(p) == crq[p].pc = "commit" /\ crq'[p].pc = "committed"

\* C9: POST /mapper-consent reaches its transaction only if every beatmapset
\* its consentBeatmapsets name is one the target user has a row for already or
\* one that is resolved; its 404 answers change no mapper_consents row, no
\* mapper_consent_beatmapsets row, no log and no pending transaction; every
\* row a commit leaves names a stored beatmapset.
C9_UnresolvedBeatmapsetRejected ==
    [][\A p \in Procs :
         /\ PassesConsent(p)
              => \A i \in DOMAIN crq'[p].consentBeatmapsets :
                    LET id == crq'[p].consentBeatmapsets[i].beatmapset_id IN
                    \/ id \in crq'[p].resolvable
                    \/ \E c \in consentBeatmapsets :
                          c.user_id = crq'[p].userId /\ c.beatmapset_id = id
         /\ RejectsConsent(p, 404)
              => UNCHANGED <<consents, consentBeatmapsets, logs, ctx, cache>>
         /\ CommitsConsent(p)
              => \A c \in consentBeatmapsets' : c.beatmapset_id \in beatmapsets'
      ]_vars

\* a request naming the unresolved beatmapset 3 is answered 404 and the
\* tables are as they were
C9_Witness ==
    \E p \in Procs :
        /\ crq[p].status = 404 /\ crq[p].error = "Beatmapset not found"
        /\ 3 \notin beatmapsets
        /\ consents = InitConsents /\ consentBeatmapsets = InitConsentBeatmapsets
        /\ logs = <<>>

\* C10: POST /mapper-consent reaches its transaction only for an actor who is
\* the target user or a captain; its 403 answer changes no mapper_consents
\* row, no mapper_consent_beatmapsets row, no log, no pending transaction, no
\* beatmapset and no cache entry.
C10_ConsentForbidden ==
    [][\A p \in Procs :
         /\ PassesConsent(p)
              => \/ crq'[p].userId = crq'[p].actor
                 \/ hasRoleCaptainAny(crq'[p].actor)
         /\ RejectsConsent(p, 403)
              => UNCHANGED <<consents, consentBeatmapsets, logs, ctx, cache,
                             beatmapsets, reviewVars>>
      ]_vars

\* user 2, no captain, is answered 403 for the consent of user 3
C10_Witness ==
    \E p \in Procs :
        /\ crq[p].status = 403
        /\ 3 \in users
        /\ consents = InitConsents /\ consentBeatmapsets = InitConsentBeatmapsets
        /\ logs = <<>>

\* the rows of a consent table that belong to a user
RowsOf(rows, userId) == {c \in rows : c.user_id = userId}

BeatmapsetIdsOf(rows) == {c.beatmapset_id : c \in rows}

\* the records a step appends to the log
NewLogs == SubSeq(logs', Len(logs) + 1, Len(logs'))

\* a commit of POST /mapper-consent leaves the rows the request asks for:
\* a row for every entry of the request, holding the entry's consent and
\* reason, and no row for any other beatmapset
ConsentRowsAsRequested(p) ==
    LET r == crq[p]
        new == RowsOf(consentBeatmapsets', r.userId)
    IN
    /\ \A i \in DOMAIN r.consentBeatmapsets :
          [user_id |-> r.userId,
           beatmapset_id |-> r.consentBeatmapsets[i].beatmapset_id,
           consent |-> r.consentBeatmapsets[i].consent,
           consent_reason |-> r.consentBeatmapsets[i].consent_reason] \in new
    /\ BeatmapsetIdsOf(new)
          = {r.consentBeatmapsets[i].beatmapset_id : i \in DOMAIN r.consentBeatmapsets}
    /\ \E c \in consents' :
          /\ c.user_id = r.userId
          /\ c.consent = r.consent /\ c.consent_reason = r.consent_reason
          /\ RowsOf(consents', r.userId) = {c}

\* a commit of POST /mapper-consent logs one record for each row it creates,
\* changes or deletes, and no other record
ConsentLogsPairChanges(p) ==
    LET r == crq[p]
        cur == RowsOf(consentBeatmapsets, r.userId)
        new == RowsOf(consentBeatmapsets', r.userId)
        both == BeatmapsetIdsOf(cur) \cap BeatmapsetIdsOf(new)
    IN
    /\ CountLogs(NewLogs, "mapperConsentBeatmapsetDeleted")
          = Cardinality(BeatmapsetIdsOf(cur) \ BeatmapsetIdsOf(new))
    /\ CountLogs(NewLogs, "mapperConsentBeatmapsetCreated")
          = Cardinality(BeatmapsetIdsOf(new) \ BeatmapsetIdsOf(cur))
    /\ CountLogs(NewLogs, "mapperConsentBeatmapsetUpdated")
          = Cardinality({id \in both :
                          \E c \in cur : c.beatmapset_id = id /\ c \notin new})
    /\ CountLogs(NewLogs, "mapperConsentCreated")
          = (IF RowsOf(consents, r.userId) = {} THEN 1 ELSE 0)
    /\ CountLogs(NewLogs, "mapperConsentUpdated")
          = (IF RowsOf(consents, r.userId) # {}
                /\ RowsOf(consents, r.userId) # RowsOf(consents', r.userId)
             THEN 1 ELSE 0)
    /\ Len(NewLogs)
          = Cardinality(BeatmapsetIdsOf(cur) \ BeatmapsetIdsOf(new))
            + Cardinality(BeatmapsetIdsOf(new) \ BeatmapsetIdsOf(cur))
            + Cardinality({id \in both :
                            \E c \in cur : c.beatmapset_id = id /\ c \notin new})
            + (IF RowsOf(consents, r.userId) # RowsOf(consents', r.userId) THEN 1 ELSE 0)

\* a commit of the request that was committed last writes and logs nothing
ConsentRepeatWritesNothing(p) ==
    RequestOf(crq[p]) = lastConsent
        => UNCHANGED <<consents, consentBeatmapsets, logs>>

\* C11: a commit of POST /mapper-consent leaves the rows of the request,
\* logs exactly one record for each row created, changed or deleted, and,
\* when it repeats the request committed last, changes no row and logs
\* nothing.
C11_ConsentDeltaApplied ==
    [][\A p \in Procs :
         CommitsConsent(p)
            => /\ ConsentRowsAsRequested(p)
               /\ ConsentLogsPairChanges(p)
               /\ ConsentRepeatWritesNothing(p)
      ]_vars

\* the request handler p commits names no beatmapset twice
NoRepeatedBeatmapset(p) ==
    \A i, j \in DOMAIN crq[p].consentBeatmapsets :
        crq[p].consentBeatmapsets[i].beatmapset_id
            = crq[p].consentBeatmapsets[j].beatmapset_id => i = j

\* What holds of the delta: the same statement for the requests that name
\* each beatmapset once.
ConsentDeltaAppliedWithoutRepeats ==
    [][\A p \in Procs :
         (CommitsConsent(p) /\ NoRepeatedBeatmapset(p))
            => /\ ConsentRowsAsRequested(p)
               /\ ConsentLogsPairChanges(p)
               /\ ConsentRepeatWritesNothing(p)
      ]_vars

\* one row of mapper_consents per mapper, one row of
\* mapper_consent_beatmapsets per (user, beatmapset)
OneConsentRowPerKey ==
    /\ \A c, d \in consents : c.user_id = d.user_id => c = d
    /\ \A c, d \in consentBeatmapsets :
          (c.user_id = d.user_id /\ c.beatmapset_id = d.beatmapset_id) => c = d

C13_ConsentCacheAfterCommit ==
    [][/\ (cache' \cap CacheKeysConsent) # (cache \cap CacheKeysConsent)
            => \E p \in Procs :
                  /\ crq[p].pc = "committed"
                  /\ crq'[p].pc = "idle" /\ crq'[p].status = 200
                  /\ ctx[p] = NoConsentTx
       /\ \A p \in Procs :
            /\ (crq[p].pc = "committed" /\ crq'[p].pc = "idle")
                  => cache' \cap CacheKeysConsent = {}
            /\ (crq[p].pc # "committed" /\ crq'[p] # crq[p])
                  => cache' = cache
      ]_vars

\* a request that created a consent row is answered 200 and the three
\* entries are gone
C13_Witness ==
    \E p \in Procs :
        /\ crq[p].status = 200
        /\ cache \cap CacheKeysConsent = {}
        /\ \E i \in DOMAIN logs : logs[i].type = "mapperConsentCreated"

\* the entry submissions:g:reviews, when held with no review request under
\* way, holds the committed reviews of game mode g
CachedReviewsFresh ==
    (\A p \in Procs : rq[p].pc = "idle")
        => \A g \in GameModes :
              CacheKeyReviews(g) \in cache
                  => cachedReviews[g] = ReviewsOfGameMode(reviews, g)

\* C14: a step of POST /review or POST /review-many that removes the entry
\* submissions:g:reviews finds the handler's transaction committed, and an
\* entry a reader stores after the removal holds the committed reviews.
C14_ReviewCacheAfterCommit ==
    [][/\ \A p \in Procs, g \in GameModes :
            (/\ rq[p].op \in {"review", "reviewMany"} \/ rq'[p].op \in {"review", "reviewMany"}
             /\ rq'[p] # rq[p]
             /\ CacheKeyReviews(g) \in cache
             /\ CacheKeyReviews(g) \notin cache')
                => /\ rq[p].pc = "commit"
                   /\ tx'[p] = NoTx
       /\ CachedReviewsFresh'
      ]_vars

\* the tables of the nominations and the pending transactions
nominationStored == <<nominations, nominators, assignees, excludedBeatmaps, ntx>>

\* handler p's nomination request of operation op passes its checks in this step
PassesNomination(p, op) ==
    nrq[p].pc = "idle" /\ nrq'[p].pc = "transact" /\ nrq'[p].op = op

\* handler p's nomination transaction of operation op commits in this step
CommitsNomination(p, op) ==
    nrq[p].pc = "commit" /\ nrq[p].op = op /\ nrq'[p].pc = "idle"

\* handler p answers its nomination request with status and error in this step
AnswersNomination(p, status, error) ==
    /\ nrq'[p] # nrq[p]
    /\ nrq'[p].pc = "idle"
    /\ nrq'[p].status = status
    /\ nrq'[p].error = error

OneNominationPerKey ==
    \A x, y \in nominations :
        (x.round_id = y.round_id /\ x.game_mode = y.game_mode
            /\ x.beatmapset_id = y.beatmapset_id) => x = y

\* C15: every state holds at most one nomination per (round_id, game_mode,
\* beatmapset_id), also with concurrent requests; POST /nomination-submit
\* passes its checks only for a key no nomination holds, and its answers
\* "Duplicate nomination" (422) and ER_DUP_ENTRY (500) change no table.
C15_OneNominationPerKey ==
    [][/\ OneNominationPerKey /\ OneNominationPerKey'
       /\ \A p \in Procs :
            /\ PassesNomination(p, "nominationSubmit")
                 => ~existingNomination(nominations, nrq'[p].roundId, nrq'[p].gameMode,
                                        nrq'[p].beatmapsetId)
            /\ (\/ AnswersNomination(p, 422, "Duplicate nomination")
                \/ AnswersNomination(p, 500, "ER_DUP_ENTRY"))
                 => UNCHANGED nominationStored
      ]_vars

\* two concurrent requests for the same key: one is answered 200, the other
\* fails on the key, and one nomination holds the key
C15_Witness ==
    \E p, q \in Procs :
        /\ nrq[p].op = "nominationSubmit" /\ nrq[p].status = 200
        /\ nrq[q].op = "nominationSubmit" /\ nrq[q].error = "ER_DUP_ENTRY"
        /\ Cardinality(nominations) = 3

\* C16: the nomination a POST /nomination-submit commits holds an order
\* greater than that of every nomination of its round and game mode that
\* exists then, so that the orders increase in the order of creation, also
\* after a nomination was deleted.
C16_OrderIncreasesAfterDelete ==
    [][\A p \in Procs :
         CommitsNomination(p, "nominationSubmit")
            => \A new \in nominations' \ nominations, old \in nominations :
                  (old.round_id = new.round_id /\ old.game_mode = new.game_mode)
                      => old.order < new.order
      ]_vars

\* C17: the row POST /nomination-submit inserts holds as order the number of
\* nominations of its round and game mode that exist when it is inserted,
\* also with concurrent requests.
C17_OrderIsCountAtInsert ==
    [][\A p \in Procs :
         (nrq[p].pc = "transact" /\ nrq[p].op = "nominationSubmit"
            /\ nrq'[p].pc = "commit")
            => \A new \in ntx'[p].nominations :
                  new.order = nominationCount(nominations, new.round_id, new.game_mode)
      ]_vars

\* C18: POST /nomination-submit passes its checks only for a beatmapset
\* whose ranked status is pending or lower and that has beatmaps in the
\* game mode; its 422 answers create no nomination and no nominator row.
C18_IneligibleNominationRejected ==
    [][\A p \in Procs :
         /\ PassesNomination(p, "nominationSubmit")
              => /\ nrq'[p].beatmapset.found
                 /\ nrq'[p].beatmapset.ranked_status <= RankedStatusPending
                 /\ nrq'[p].gameMode \in nrq'[p].beatmapset.game_modes
         /\ (nrq[p].pc = "idle" /\ nrq'[p].pc = "idle" /\ nrq'[p].status = 422)
              => UNCHANGED nominationStored
      ]_vars

\* every nomination created by a request has exactly one nominator row
CreatedNominationHasNominator ==
    \A n \in nominations :
        n \notin InitNominations
            => Cardinality(RowsOfNomination(nominators, n.id)) = 1

\* C19: the commit of POST /nomination-submit makes the nomination and the
\* nominator row of the creating actor visible in one step, and that row is
\* the only nominator row of the nomination; a transaction that fails
\* leaves neither; no state shows a created nomination without its
\* nominator.
C19_NominationWithNominator ==
    [][/\ \A p \in Procs :
            /\ CommitsNomination(p, "nominationSubmit")
                 => \E new \in nominations' :
                       /\ new.id = nrq[p].nominationId
                       /\ new \notin nominations
                       /\ nominations' = nominations \cup {new}
                       /\ RowsOfNomination(nominators', new.id)
                            = {[nomination_id |-> new.id, nominator_id |-> nrq[p].actor]}
                       /\ nominators' = nominators \cup RowsOfNomination(nominators', new.id)
            /\ (nrq[p].op = "nominationSubmit" /\ nrq'[p].status = 500
                  /\ nrq'[p] # nrq[p])
                 => UNCHANGED nominationStored
       /\ CreatedNominationHasNominator'
      ]_vars

\* the god 4 has created nomination 3 and is its one nominator
C19_Witness ==
    /\ \E n \in nominations : n.id = 3
    /\ RowsOfNomination(nominators, 3) = {[nomination_id |-> 3, nominator_id |-> 4]}
    /\ \E p \in Procs : nrq[p].op = "nominationSubmit" /\ nrq[p].status = 200

\* every row of nomination_assignees, nomination_excluded_beatmaps and
\* nomination_nominators names a nomination that exists
NoRowOfDeletedNomination ==
    \A x \in assignees \cup excludedBeatmaps \cup nominators :
        \E n \in nominations : n.id = x.nomination_id

\* C20: the transaction of DELETE /nomination deletes from
\* nomination_assignees, nomination_excluded_beatmaps, nomination_nominators
\* and nominations in that order; its commit leaves no row of the
\* nomination in any of the four tables and every row of the other
\* nominations; no state shows a row of a nomination that is gone; its 403
\* changes nothing.
C20_DeleteNominationCascades ==
    [][/\ \A p \in Procs :
            /\ (nrq[p].pc = "transact" /\ nrq[p].op = "deleteNomination"
                  /\ nrq'[p].pc = "commit")
                 => ntx'[p].statements
                      = <<"nomination_assignees", "nomination_excluded_beatmaps",
                          "nomination_nominators", "nominations">>
            /\ CommitsNomination(p, "deleteNomination")
                 => LET id == nrq[p].nominationId IN
                    /\ assignees' = {x \in assignees : x.nomination_id # id}
                    /\ excludedBeatmaps' = {x \in excludedBeatmaps : x.nomination_id # id}
                    /\ nominators' = {x \in nominators : x.nomination_id # id}
                    /\ nominations' = {n \in nominations : n.id # id}
                    /\ nrq'[p].status = 204
            /\ AnswersNomination(p, 403, "") => UNCHANGED nominationStored
       /\ NoRowOfDeletedNomination'
      ]_vars

\* nomination 1 was deleted by its nominator: no row of it is left, the rows
\* of nomination 2 are
C20_Witness ==
    /\ \E p \in Procs : nrq[p].op = "deleteNomination" /\ nrq[p].status = 204
    /\ \A n \in nominations : n.id # 1
    /\ \A x \in assignees \cup excludedBeatmaps \cup nominators : x.nomination_id # 1
    /\ Cardinality(assignees) = 1 /\ Cardinality(excludedBeatmaps) = 1

\* handler p's edit transaction of operation op commits in this step
CommitsEdit(p, op) ==
    erq[p].pc = "commit" /\ erq[p].op = op /\ erq'[p].pc = "idle"

\* handler p answers its edit request of operation op with status in this step
AnswersEdit(p, op, status) ==
    /\ erq'[p] # erq[p]
    /\ erq'[p].pc = "idle"
    /\ erq'[p].op = op
    /\ erq'[p].status = status

\* C21: DELETE /nomination removes a nomination only for a god or for an
\* actor who is a nominator of the nomination when the delete commits, also
\* while POST /update-nominators runs; its 403 deletes nothing.
C21_DeleteByGodOrNominator ==
    [][\A p \in Procs :
         /\ (CommitsNomination(p, "deleteNomination") /\ nominations' # nominations)
              => \/ rolesGod(nrq[p].actor)
                 \/ isNominator(nominators, nrq[p].nominationId, nrq[p].actor)
         /\ (nrq[p].pc = "idle" /\ AnswersNomination(p, 403, ""))
              => UNCHANGED nominationStored
      ]_vars

\* handler p starts an edit request of operation op in this step
StartsEdit(p, op) ==
    erq[p].pc = "idle" /\ erq'[p] # erq[p] /\ erq'[p].op = op

\* handler p's UPDATE of POST /nomination-edit-description runs in this step
UpdatesDescription(p) ==
    erq[p].pc = "update" /\ erq[p].op = "editDescription" /\ erq'[p].pc = "idle"

\* the actor may edit the description of the stored nomination n
DescriptionEditable(actor, n) ==
    \/ rolesGameModes(actor, n.game_mode) /\ n.description_state # "reviewed"
    \/ rolesNews(actor) /\ n.description # NullText

\* the description columns of the rows
DescriptionsOf(rows) ==
    {<<n.id, n.description, n.description_author_id, n.description_state>> : n \in rows}

C23_ClearDescriptionByCaptain ==
    [][/\ \A p \in Procs :
            (UpdatesDescription(p) /\ erq[p].description = NullText)
                => /\ erq'[p].status = 200
                   /\ \A n \in NominationsOfId(nominations, erq[p].nominationId) :
                         rolesGameModes(erq[p].actor, n.game_mode)
       /\ \A n \in nominations, m \in nominations' :
            (n.id = m.id /\ n.description # NullText /\ m.description = NullText)
                => \E p \in Procs :
                      /\ UpdatesDescription(p)
                      /\ erq[p].nominationId = n.id
                      /\ rolesGameModes(erq[p].actor, n.game_mode)
      ]_vars

\* a captain of game mode 0 cleared the description of nomination 2
C23_Witness ==
    /\ \E n \in nominations : n.id = 2 /\ n.description = NullText
    /\ \E p \in Procs :
         /\ erq[p].op = "editDescription" /\ erq[p].status = 200
         /\ erq[p].nominationId = 2 /\ rolesGameModes(erq[p].actor, 0)

\* no nomination without a description is reviewed
NullDescriptionNotReviewed ==
    \A n \in nominations : n.description = NullText => n.description_state # "reviewed"

\* C24: the UPDATE of POST /nomination-edit-description leaves
\* description_state reviewed exactly when the actor is a news author and
\* both the stored and the new description are not null, and not_reviewed
\* otherwise; no nomination with a null description is reviewed.
C24_ReviewedIffNewsEditsText ==
    [][/\ \A p \in Procs :
            UpdatesDescription(p)
                => \A n \in NominationsOfId(nominations, erq[p].nominationId) :
                     \E m \in nominations' :
                        /\ m.id = n.id
                        /\ m.description = erq[p].description
                        /\ m.description_state \in {"reviewed", "not_reviewed"}
                        /\ m.description_state = "reviewed"
                             <=> /\ rolesNews(erq[p].actor)
                                 /\ n.description # NullText
                                 /\ erq[p].description # NullText
       /\ NullDescriptionNotReviewed'
      ]_vars

\* the news author 5 edited the description of nomination 2, which is
\* reviewed, and nomination 1 has none and is not reviewed
C24_Witness ==
    /\ \E n \in nominations :
         n.id = 2 /\ n.description = "b" /\ n.description_state = "reviewed"
    /\ \E n \in nominations :
         n.id = 1 /\ n.description = NullText /\ n.description_state = "not_reviewed"
    /\ \E p \in Procs :
         erq[p].op = "editDescription" /\ erq[p].actor = 5 /\ erq[p].status = 200

\* a nomination has an author of its description exactly when it has one
AuthorIffDescription ==
    \A n \in nominations : n.description_author_id # 0 <=> n.description # NullText

\* C25: the UPDATE of POST /nomination-edit-description sets
\* description_author_id to the actor when it writes a first text, keeps it
\* when it replaces a text by a text, and sets it to null with a null
\* description; a nomination has an author exactly when it has a description.
C25_DescriptionAuthor ==
    [][/\ \A p \in Procs :
            UpdatesDescription(p)
                => \A n \in NominationsOfId(nominations, erq[p].nominationId) :
                     \E m \in nominations' :
                        /\ m.id = n.id
                        /\ (erq[p].description # NullText /\ n.description = NullText)
                             => m.description_author_id = erq[p].actor
                        /\ (erq[p].description # NullText /\ n.description # NullText)
                             => m.description_author_id = n.description_author_id
                        /\ erq[p].description = NullText => m.description_author_id = 0
       /\ AuthorIffDescription'
      ]_vars

\* the news author 5 replaced the text of nomination 2, whose author is
\* still the captain 1
C25_Witness ==
    /\ \E n \in nominations :
         n.id = 2 /\ n.description = "b" /\ n.description_author_id = 1
    /\ \E p \in Procs :
         erq[p].op = "editDescription" /\ erq[p].actor = 5 /\ erq[p].status = 200

\* the metadata columns of the rows
MetadataOf(rows) ==
    {<<n.id, n.metadata_state, n.overwrite_artist, n.overwrite_title>> : n \in rows}

\* C26: POST /nomination-edit-metadata answers 403 and changes nothing for
\* an actor who is neither metadata checker nor news author; only a
\* metadata checker's request changes metadata_state, overwrite_artist or
\* overwrite_title, and the commit of a news author who is no metadata
\* checker leaves them as they were.
C26_EditMetadataRoles ==
    [][/\ \A p \in Procs :
            /\ StartsEdit(p, "editMetadata")
                 => /\ nominations' = nominations /\ creators' = creators
                    /\ erq'[p].pc = "transact"
                         => rolesMetadata(erq'[p].actor) \/ rolesNews(erq'[p].actor)
                    /\ (~rolesMetadata(erq'[p].actor) /\ ~rolesNews(erq'[p].actor))
                         => erq'[p].pc = "idle" /\ erq'[p].status = 403
            /\ (CommitsEdit(p, "editMetadata")
                  /\ rolesNews(erq[p].actor) /\ ~rolesMetadata(erq[p].actor))
                 => MetadataOf(nominations') = MetadataOf(nominations)
       /\ MetadataOf(nominations') # MetadataOf(nominations)
            => \E p \in Procs :
                  CommitsEdit(p, "editMetadata") /\ rolesMetadata(erq[p].actor)
      ]_vars

\* the news author 5 replaced the creators of nomination 2's beatmapset and
\* the metadata columns of nomination 2 are the stored ones
C26_Witness ==
    /\ \E p \in Procs :
         /\ erq[p].op = "editMetadata" /\ erq[p].actor = 5
         /\ erq[p].status = 200 /\ erq[p].pc = "idle"
    /\ \E c \in creators : c.beatmapset_id = 3 /\ c.creator_id = 3
    /\ MetadataOf(nominations) = MetadataOf(InitNominations)

\* a nomination whose metadata is good has no overwrite
GoodHasNoOverwrite ==
    \A n \in nominations :
        n.metadata_state = "good"
            => n.overwrite_artist = NullText /\ n.overwrite_title = NullText

\* C27: the commit of a metadata checker's POST /nomination-edit-metadata
\* with state good leaves the nomination good with overwrite_artist and
\* overwrite_title null whatever the request sent; the transaction
\* refreshes the beatmapset with force exactly when it is a metadata
\* checker's, the state sent is good and the stored state is needs_change;
\* every good nomination has both overwrites null.
C27_GoodClearsOverwrites ==
    [][/\ \A p \in Procs :
            /\ (CommitsEdit(p, "editMetadata") /\ rolesMetadata(erq[p].actor)
                  /\ erq[p].state = "good")
                 => \A m \in NominationsOfId(nominations', erq[p].nominationId) :
                       /\ m.metadata_state = "good"
                       /\ m.overwrite_artist = NullText
                       /\ m.overwrite_title = NullText
            /\ (erq[p].pc = "transact" /\ erq[p].op = "editMetadata"
                  /\ erq'[p] # erq[p])
                 => \A n \in NominationsOfId(nominations, erq[p].nominationId) :
                       LET due == /\ rolesMetadata(erq[p].actor)
                                  /\ erq[p].state = "good"
                                  /\ n.metadata_state = "needs_change"
                       IN /\ erq'[p].pc = "commit" => (erq'[p].forced <=> due)
                          /\ beatmapsets' # beatmapsets => due
       /\ GoodHasNoOverwrite'
      ]_vars

\* the metadata checker 6 set nomination 2 from needs_change to good: the
\* overwrites are null and the refreshed beatmapset 3 is stored
C27_Witness ==
    /\ \E n \in nominations :
         /\ n.id = 2 /\ n.metadata_state = "good"
         /\ n.overwrite_artist = NullText /\ n.overwrite_title = NullText
    /\ 3 \in beatmapsets
    /\ \E p \in Procs :
         erq[p].op = "editMetadata" /\ erq[p].actor = 6 /\ erq[p].status = 200

\* C28: the commit of POST /nomination-edit-metadata with a non-empty
\* creators list leaves exactly the resolved creators as rows of the
\* nomination's (beatmapset, game mode) and every other row as it was; with
\* creators absent or empty it leaves beatmapset_creators unchanged.
C28_CreatorsReplacedOnlyWithList ==
    [][\A p \in Procs :
         CommitsEdit(p, "editMetadata")
            => LET r == erq[p] IN
               IF r.creators.given /\ Len(r.creators.names) > 0
                   THEN /\ CreatorsOf(creators', r.beatmapsetId, r.gameMode)
                            = {[beatmapset_id |-> r.beatmapsetId,
                                creator_id |-> OsuUserByName(r.creators.names[i]),
                                game_mode |-> r.gameMode] :
                                  i \in DOMAIN r.creators.names}
                        /\ creators' \ CreatorsOf(creators', r.beatmapsetId, r.gameMode)
                            = creators \ CreatorsOf(creators, r.beatmapsetId, r.gameMode)
                   ELSE creators' = creators
      ]_vars

\* the order column of the rows
OrdersOf(rows) == {<<n.id, n.order>> : n \in rows}

\* C29: the commit of a captain's POST /update-nomination-order gives every
\* nomination named in the map the mapped order, equal orders included, and
\* leaves every other nomination as it was; no other step changes an order,
\* so a request one of whose UPDATEs fails, or that is answered 403, shows
\* none of its updates.
C29_ReorderAtomic ==
    [][/\ \A p \in Procs :
            /\ CommitsEdit(p, "updateNominationOrder")
                 => /\ isCaptain(erq[p].actor)
                    /\ erq'[p].status = 204
                    /\ nominations'
                         = {IF n.id \in DOMAIN erq[p].orderMap
                               THEN [n EXCEPT !.order = erq[p].orderMap[n.id]]
                               ELSE n : n \in nominations}
            /\ (AnswersEdit(p, "updateNominationOrder", 500)
                  \/ AnswersEdit(p, "updateNominationOrder", 403))
                 => nominations' = nominations
       /\ OrdersOf(nominations') # OrdersOf(nominations)
            => \E p \in Procs : CommitsEdit(p, "updateNominationOrder")
      ]_vars

\* a captain's reorder committed and nominations 1 and 2 have the same order
C29_Witness ==
    /\ \E p \in Procs :
         /\ erq[p].op = "updateNominationOrder" /\ erq[p].status = 204
         /\ erq[p].pc = "idle"
    /\ \E x, y \in nominations : x.id = 1 /\ y.id = 2 /\ x.order = 5 /\ y.order = 5

\* a reorder with an UPDATE that fails was answered 500 after another one
\* committed, and the orders are the ones that one set
C29_WitnessRollback ==
    /\ \E p \in Procs : erq[p].op = "updateNominationOrder" /\ erq[p].status = 500
    /\ \E p \in Procs : erq[p].op = "updateNominationOrder" /\ erq[p].status = 204
    /\ OrdersOf(nominations) = {<<1, 5>>, <<2, 0>>}

\* C30: POST /update-nomination-assignees answers 403 and changes nothing
\* unless the actor is a news author or has the role of the type; its commit
\* leaves exactly the ids sent as assignees of (nomination, type), none for
\* an empty list, and every other row of nomination_assignees as it was.
C30_AssigneesReplacedPerType ==
    [][/\ \A p \in Procs :
            /\ StartsEdit(p, "updateNominationAssignees")
                 => LET allowed == \/ rolesNews(erq'[p].actor)
                                   \/ erq'[p].type = 0 /\ rolesMetadata(erq'[p].actor)
                                   \/ erq'[p].type = 1 /\ rolesModerator(erq'[p].actor)
                    IN
                    /\ assignees' = assignees
                    /\ erq'[p].pc = "transact" => allowed
                    /\ (erq'[p].type \in {0, 1} /\ ~allowed)
                         => erq'[p].pc = "idle" /\ erq'[p].status = 403
            /\ CommitsEdit(p, "updateNominationAssignees")
                 => LET r == erq[p]
                        mine(a) == a.nomination_id = r.nominationId /\ a.type = r.type
                    IN
                    /\ {a.assignee_id : a \in {x \in assignees' : mine(x)}}
                         = {r.ids[i] : i \in DOMAIN r.ids}
                    /\ {a \in assignees' : ~mine(a)} = {a \in assignees : ~mine(a)}
                    /\ erq'[p].status = 200
       /\ assignees' # assignees
            => \E p \in Procs : CommitsEdit(p, "updateNominationAssignees")
      ]_vars

\* the captain 1 was answered 403, the metadata checker 6 cleared the
\* metadata assignees of nomination 1, and nomination 2 keeps its assignee
C30_Witness ==
    /\ \E p \in Procs :
         /\ erq[p].op = "updateNominationAssignees" /\ erq[p].actor = 6
         /\ erq[p].nominationId = 1 /\ erq[p].status = 200
    /\ \E p \in Procs :
         /\ erq[p].op = "updateNominationAssignees" /\ erq[p].actor = 1
         /\ erq[p].status = 403
    /\ assignees = {[nomination_id |-> 2, assignee_id |-> 2, type |-> 0]}

\* C31: the commit of a captain's POST /update-nominators leaves exactly the
\* ids sent as nominators of the nomination, none for an empty list, and
\* the rows of the other nominations as they were; the rows of
\* nomination_nominators change in no other step of the request, so no
\* state shows the old rows deleted and the new ones missing; a 403 changes
\* nothing.
C31_NominatorsReplaced ==
    [][/\ \A p \in Procs :
            /\ CommitsEdit(p, "updateNominators")
                 => LET r == erq[p] IN
                    /\ isCaptain(r.actor)
                    /\ erq'[p].status = 200
                    /\ {n.nominator_id :
                          n \in {x \in nominators' : x.nomination_id = r.nominationId}}
                         = {r.ids[i] : i \in DOMAIN r.ids}
                    /\ {x \in nominators' : x.nomination_id # r.nominationId}
                         = {x \in nominators : x.nomination_id # r.nominationId}
            /\ AnswersEdit(p, "updateNominators", 403) => nominators' = nominators
       /\ nominators' # nominators
            => \E p \in Procs :
                  \/ CommitsEdit(p, "updateNominators")
                  \/ CommitsNomination(p, "deleteNomination")
      ]_vars

\* the captain 8 replaced the nominators of nomination 1 by users 1 and 2,
\* and then by none
C31_Witness ==
    /\ \E p \in Procs :
         /\ erq[p].op = "updateNominators" /\ erq[p].status = 200
         /\ erq[p].actor = 8 /\ erq[p].nominationId = 1
    /\ \/ {n.nominator_id : n \in {x \in nominators : x.nomination_id = 1}} = {1, 2}
       \/ /\ {x \in nominators : x.nomination_id = 1} = {}
          /\ \E n \in nominations : n.id = 1
    /\ \E x \in nominators : x.nomination_id = 2

\* what a round request was before its step and is after it
StartsRound(p, op) == rrq[p].pc = "idle" /\ rrq'[p] # rrq[p] /\ rrq'[p].op = op

CommitsRound(p) == rrq[p].pc = "commit" /\ rrq'[p].pc = "idle"

RoundGameModesOf(roundId) == {m \in roundGameModes : m.round_id = roundId}

\* C32: every stored round has exactly one round_game_modes row per game
\* mode 0..3 and every such row belongs to a stored round; the rows
\* POST /add-round writes hold the threshold configured for the game mode
\* when they are inserted, 0 if none is configured, and become visible
\* together with the round; an INSERT that fails while the rows are seeded
\* leaves neither the round nor a row of it.
C32_RoundSeeded ==
    /\ [](/\ \A x \in rounds : \A g \in {0, 1, 2, 3} :
               Cardinality({m \in RoundGameModesOf(x.id) : m.game_mode = g}) = 1
          /\ \A m \in roundGameModes :
               m.game_mode \in {0, 1, 2, 3} /\ \E x \in rounds : x.id = m.round_id
          /\ \A p \in Procs :
               rrq[p].op = "addRound" /\ rrq[p].error = "unhandled rejection"
                  => /\ RoundGameModesOf(rrq[p].roundId) = {}
                     /\ \A x \in rounds : x.id # rrq[p].roundId)
    /\ [][\A p \in Procs :
            /\ rrq[p].pc = "transact" /\ rrq'[p].pc = "commit"
                 => \A m \in rtx'[p].roundGameModes :
                       m.voting_threshold =
                          IF m.game_mode + 1 \in DOMAIN settings
                             THEN settings[m.game_mode + 1] ELSE 0
            /\ CommitsRound(p)
                 => /\ {x.id : x \in rounds' \ rounds} = {rrq[p].roundId}
                    /\ roundGameModes' \ roundGameModes = rtx[p].roundGameModes
                    /\ rounds \subseteq rounds' /\ roundGameModes \subseteq roundGameModes'
         ]_vars

\* the creation of round 4 failed while its rows were seeded; round 5 was
\* created with the threshold 3 configured for game mode 0 and none for
\* game mode 1
C32_Witness ==
    /\ \E p \in Procs : rrq[p].error = "unhandled rejection" /\ rrq[p].roundId = 4
    /\ \E x \in rounds : x.id = 5
    /\ \E m \in RoundGameModesOf(5) : m.game_mode = 0 /\ m.voting_threshold = 3
    /\ \E m \in RoundGameModesOf(5) : m.game_mode = 1 /\ m.voting_threshold = 0

\* C33: GET /rounds puts every stored round in exactly one of its two
\* lists, in complete_rounds if and only if it is done, the complete rounds
\* by descending id and the incomplete ones by ascending id, each with the
\* number of nominations stored for it; a round POST /add-round created
\* before is in incomplete_rounds with nomination_count 0.
C33_ListRounds ==
    [][\A p \in Procs :
          StartsRound(p, "listRounds")
            => LET c == rrq'[p].result.complete_rounds
                   i == rrq'[p].result.incomplete_rounds
                   listed == {c[k] : k \in DOMAIN c} \cup {i[k] : k \in DOMAIN i}
               IN
               /\ rrq'[p].status = 200
               /\ Len(c) + Len(i) = Cardinality(rounds)
               /\ {x.id : x \in listed} = {x.id : x \in rounds}
               /\ \A k \in DOMAIN c : \E x \in rounds : x.id = c[k].id /\ x.done
               /\ \A k \in DOMAIN i : \E x \in rounds : x.id = i[k].id /\ ~x.done
               /\ \A k, l \in DOMAIN c : k < l => c[k].id > c[l].id
               /\ \A k, l \in DOMAIN i : k < l => i[k].id < i[l].id
               /\ \A x \in listed :
                     x.nomination_count
                        = Cardinality({n \in nominations : n.round_id = x.id})
               /\ \A q \in Procs :
                     rrq[q].op = "addRound" /\ rrq[q].status = 200 /\ rrq[q].pc = "idle"
                        => \E k \in DOMAIN i :
                              i[k].id = rrq[q].roundId /\ i[k].nomination_count = 0
      ]_vars

\* GET /rounds after POST /add-round: the rounds 3 and 2 are complete, the
\* round 1 with its two nominations and the new round 4 with none are not
C33_Witness ==
    \E p \in Procs :
        /\ rrq[p].op = "listRounds"
        /\ Len(rrq[p].result.complete_rounds) = 2
        /\ rrq[p].result.complete_rounds[1].id = 3
        /\ Len(rrq[p].result.incomplete_rounds) = 2
        /\ rrq[p].result.incomplete_rounds[1].nomination_count = 2
        /\ rrq[p].result.incomplete_rounds[2].id = 4
        /\ rrq[p].result.incomplete_rounds[2].nomination_count = 0

\* C34: no step of a handler changes the done flag of a stored round, and
\* a round is not done when it is created.
C34_DoneNotChanged ==
    [][/\ \A x \in rounds : \A y \in rounds' : y.id = x.id => y.done = x.done
       /\ \A y \in rounds' : (\A x \in rounds : x.id # y.id) => ~y.done
      ]_vars

\* POST /update-round renamed round 1, which is not done, and round 2,
\* which is
C34_Witness ==
    /\ \A p \in Procs : rrq[p].op = "updateRound" /\ rrq[p].status = 204
    /\ \E x \in rounds : x.id = 1 /\ x.name = "r" /\ ~x.done
    /\ \E x \in rounds : x.id = 2 /\ x.name = "r" /\ x.done

InSection(u) == {p \in Procs : srq[p].userId = u /\ srq[p].pc \in SessionSection}

\* C36: at most one request of a user is between the reload of the session
\* and the end of the refresh, save or destroy at a time, and it is the one
\* that holds the user's key; a request waits for requests of the same
\* user only: it is queued under the key of its user, which holds no
\* request of another user.
C36_OneRequestPerUserInSection ==
    /\ \A u \in DOMAIN sessionLock :
          /\ Cardinality(InSection(u)) <= 1
          /\ \A p \in InSection(u) : Head(sessionLock[u]) = p
          /\ \A i \in DOMAIN sessionLock[u] : srq[sessionLock[u][i]].userId = u
    /\ \A p \in Procs :
          srq[p].pc = "waiting"
             => \E i \in DOMAIN sessionLock[srq[p].userId] :
                   sessionLock[srq[p].userId][i] = p

\* a request of user 1 and one of user 2 are in the section together
C36_WitnessOtherUser ==
    /\ InSection(1) # {} /\ InSection(2) # {}

\* a request of user 1 waits while another one of user 1 is in the section
C36_Witness ==
    \E p \in Procs : srq[p].pc = "waiting" /\ srq[p].userId = 1 /\ InSection(1) # {}

\* the requests that hold or await the key of user u
Queued(u) == {sessionLock[u][i] : i \in DOMAIN sessionLock[u]}

\* C40: a reload that fails is answered 401; an error of the refresh or of
\* the save destroys the session and is answered 401 if its status is 401
\* and thrown on otherwise; neither reaches the user lookup or the routers,
\* which only a request whose callback returned false does; the request
\* gives the key up when it leaves the callback, whatever the outcome; a
\* request in the callback leaves it, and a request that waits for the key
\* of its user gets it.
C40_SessionLockReleased ==
    /\ [][\A p \in Procs :
            /\ srq[p].pc = "reload" /\ srq'[p].pc # "reload"
                 => \/ srq[p].userId \in sessions /\ srq'[p].pc = "refresh"
                    \/ /\ srq[p].userId \notin sessions
                       /\ srq'[p].pc = "done" /\ srq'[p].status = 401
            /\ srq[p].pc = "destroy" /\ srq'[p].pc # "destroy"
                 => /\ srq'[p].pc = "done" /\ srq'[p].status \in {401, 500}
                    /\ srq'[p].status = 401 <=> srq'[p].error = "401"
                    /\ srq'[p].error # "destroy" => srq[p].userId \notin sessions'
            /\ srq'[p].pc = "lookup" /\ srq[p].pc # "lookup"
                 => srq[p].pc \in {"refresh", "save"} /\ srq[p].error = ""
            /\ srq'[p].pc = "router" /\ srq'[p] # srq[p]
                 => srq[p].pc = "lookup" \/ srq'[p].userId = 0
            /\ srq[p].pc \in SessionSection /\ srq'[p].pc \notin SessionSection
                 => p \notin Queued(srq[p].userId)'
         ]_vars
    /\ \A p \in Procs : (srq[p].pc \in SessionSection) ~> (srq[p].pc \notin SessionSection)
    /\ \A p \in Procs : (srq[p].pc = "waiting") ~> (srq[p].pc = "reload")

\* a refresh of user 1 was refused with 401: the session is destroyed, the
\* request answered 401, and the request of user 1 that waited for the key
\* got it, failed to reload the session and was answered 401 as well
C40_Witness ==
    \E p, q \in Procs :
        /\ srq[p].userId = 1 /\ srq[p].error = "401" /\ srq[p].status = 401
        /\ srq[q].userId = 1 /\ srq[q].waited /\ srq[q].error = ""
        /\ srq[q].pc = "done" /\ srq[q].status = 401
        /\ 1 \notin sessions /\ sessionLock[1] = <<>>

\* C37: when POST /review or POST /add-round answers with success, the
\* transaction is committed: the review, or the round, is stored in the
\* state in which the answer is sent.
C37_SuccessOnlyAfterCommit ==
    [][\A p \in Procs :
          /\ rq'[p].op = "review" /\ rq'[p].status = 200 /\ rq[p].status # 200
               => \E x \in reviews' :
                     /\ x.beatmapset_id = rq[p].beatmapsetId
                     /\ x.reviewer_id = rq[p].actor
                     /\ x.game_mode = rq[p].gameModes[1]
                     /\ x.score = rq[p].score /\ x.reason = rq[p].reason
          /\ rrq'[p].op = "addRound" /\ rrq'[p].status = 200 /\ rrq[p].status # 200
               => \E x \in rounds' : x.id = rrq'[p].roundId
      ]_vars

\* C39: in every state the parent_id of a stored nomination, when it has
\* one (0 stands for null), is the id of a stored nomination.
C39_ParentExists ==
    \A n \in nominations :
        n.parent_id # 0 => \E m \in nominations : m.id = n.parent_id

\* the ids of the stored nominations
NominationIdsStored == {n.id : n \in nominations}

\* the handlers that replace the rows of a nomination in one table
SetOps == {"updateNominators", "updateNominationAssignees", "updateExcludedBeatmaps"}

====
